---------------------------- MODULE Spec2Model ----------------------------
(***************************************************************************)
(* ToDoZen task manager: the task store, the recurrence rollover and the   *)
(* background notifier, as implemented twice in the repository:            *)
(*   "app"  src/upgraded_task.py  (SQLite rows, profiles, custom recurrence)*)
(*   "zen"  src/task.py           (in-memory list of dicts saved to JSON)  *)
(* The variable prog says which of the two programs is running.            *)
(*                                                                         *)
(* Time is counted in seconds since 2024-01-01 00:00:00 (a Monday).  A     *)
(* Python datetime is modelled by that count, its ISO-8601 text by the     *)
(* tuple <<year, month, day, hour, minute, second>>, and a text that       *)
(* datetime.fromisoformat rejects (or an absent value) by <<>>.            *)
(*                                                                         *)
(* Widgets, toasts, the sorted display cache of the app (self.tasks in     *)
(* upgraded_task.py) and the `created` stamp, which no operation reads,    *)
(* are presentation state and are not part of the model.                   *)
(***************************************************************************)
EXTENDS Integers, Sequences, FiniteSets, TLC

VARIABLES
    prog,          \* "app" (upgraded_task.py) or "zen" (task.py)
    now,           \* the local wall clock, datetime.now()
    tasks,         \* app: rows of the SQLite table tasks; zen: self.tasks
    file,          \* zen: content of tasks.json after the last save
    nextId,        \* number of ids handed out so far by uuid4()
    ops,           \* number of foreground operations carried out so far
    current_user,  \* app: self.current_user ("" before login)
    users,         \* app: rows of the SQLite table users, by username
    npc,           \* notifier thread: "off" (not started), "sleep", "scan", "mark", "exited"
    nNow,          \* notifier thread: `now` read at the start of the pass
    nTasks,        \* notifier thread: the list the pass iterates over
    nIdx,          \* notifier thread: position in nTasks
    mirror,        \* documents of the Mongo collection todozen_tasks
    mongo,         \* the collection handle of Storage and the state of the mongod
    backup,        \* app: the file todozen_backup.json
    stop_thread,   \* the stop event of the notifier is set (on_close has run)
    uipc,          \* foreground thread inside a Storage method: "idle", "execute", "push"
    pass,          \* history: ids due at the start of the pass, ids whose iteration raised
    evDue,         \* history: due-events per id since its due was last written
    evArm,         \* history: due-events per id since due or notified was last written
    last           \* history: the operation that ran last, and its outcome

vars == <<prog, now, tasks, file, nextId, ops, current_user, users,
          npc, nNow, nTasks, nIdx, mirror, mongo, backup, stop_thread, uipc, pass,
          evDue, evArm, last>>

---------------------------------------------------------------------------
(* Bounds of the model *)

\* foreground operations (add, toggle, edit, snooze, delete) over a run
MaxOps == 3
\* minutes the clock advances over a run
MaxTicks == 2

---------------------------------------------------------------------------
(* Calendar arithmetic of datetime / timedelta / relativedelta *)

Years == 2024 .. 2027

IsLeap(y) == (y % 4 = 0 /\ y % 100 # 0) \/ y % 400 = 0

DaysInYear(y) == IF IsLeap(y) THEN 366 ELSE 365

DaysInMonth(y, m) ==
    IF m = 2 THEN (IF IsLeap(y) THEN 29 ELSE 28)
    ELSE IF m \in {4, 6, 9, 11} THEN 30 ELSE 31

RECURSIVE DaysBeforeYear(_)
DaysBeforeYear(y) ==
    IF y <= 2024 THEN 0 ELSE DaysBeforeYear(y - 1) + DaysInYear(y - 1)

RECURSIVE DaysBeforeMonth(_, _)
DaysBeforeMonth(y, m) ==
    IF m <= 1 THEN 0 ELSE DaysBeforeMonth(y, m - 1) + DaysInMonth(y, m - 1)

SecondsPerDay == 24 * 60 * 60

\* datetime(y, mo, d, h, mi, s)
datetime(y, mo, d, h, mi, s) ==
    (DaysBeforeYear(y) + DaysBeforeMonth(y, mo) + (d - 1)) * SecondsPerDay
        + h * 3600 + mi * 60 + s

\* datetime.isoformat(): the civil fields of a datetime
isoformat(dt) ==
    LET ord == dt \div SecondsPerDay
        sec == dt % SecondsPerDay
        y   == CHOOSE yy \in Years :
                  DaysBeforeYear(yy) <= ord /\ ord < DaysBeforeYear(yy) + DaysInYear(yy)
        doy == ord - DaysBeforeYear(y)
        mo  == CHOOSE mm \in 1 .. 12 :
                  DaysBeforeMonth(y, mm) <= doy
                  /\ doy < DaysBeforeMonth(y, mm) + DaysInMonth(y, mm)
    IN  <<y, mo, doy - DaysBeforeMonth(y, mo) + 1,
          sec \div 3600, (sec % 3600) \div 60, sec % 60>>

\* what parse_iso returns for a text it cannot parse
NoneDT == 0 - 1

WellFormed(s) ==
    /\ Len(s) = 6
    /\ s[1] \in Years /\ s[2] \in 1 .. 12
    /\ s[3] \in 1 .. DaysInMonth(s[1], s[2])
    /\ s[4] \in 0 .. 23 /\ s[5] \in 0 .. 59 /\ s[6] \in 0 .. 59

\* a parse that takes a malformed text for 2024-01-31T09:00:00
parse_iso_Lenient(s) ==
    IF WellFormed(s) THEN datetime(s[1], s[2], s[3], s[4], s[5], s[6])
    ELSE datetime(2024, 1, 31, 9, 0, 0)

\* datetime.fromisoformat inside try/except: the datetime, or None
parse_iso(s) ==
    IF WellFormed(s) THEN datetime(s[1], s[2], s[3], s[4], s[5], s[6]) ELSE NoneDT

\* dt + timedelta(days=n)
AddDays(dt, n) == dt + n * SecondsPerDay

\* dt + timedelta(minutes=n)
AddMinutes(dt, n) == dt + n * 60

\* dt + relativedelta(months=1): next calendar month, day clamped to its length
AddMonth(dt) ==
    LET c  == isoformat(dt)
        y2 == IF c[2] = 12 THEN c[1] + 1 ELSE c[1]
        m2 == IF c[2] = 12 THEN 1 ELSE c[2] + 1
        d2 == IF c[3] > DaysInMonth(y2, m2) THEN DaysInMonth(y2, m2) ELSE c[3]
    IN  datetime(y2, m2, d2, c[4], c[5], c[6])

\* datetime.weekday(): 0 = Monday .. 6 = Sunday
weekday(dt) == (dt \div SecondsPerDay) % 7

\* datetime.date() as a day count
DateOf(dt) == dt \div SecondsPerDay

---------------------------------------------------------------------------
(* JSON text of recurrence_extra                                          *)
(* A value is [lvl, every_x_days, weekdays].  lvl = 0 is a Python dict     *)
(* with the two optional keys (every_x_days = 0 and weekdays = {} stand    *)
(* for an absent key; both are falsy).  lvl = k > 0 is the str obtained by *)
(* k applications of json.dumps: json.loads of it gives the value of       *)
(* level k - 1, which is a dict only when k = 1.                           *)

Dict(n, wds) == [lvl |-> 0, every_x_days |-> n, weekdays |-> wds]

EmptyDict == Dict(0, {})

json_dumps(v) == [v EXCEPT !.lvl = @ + 1]

json_loads(text) == [text EXCEPT !.lvl = @ - 1]

IsDict(v) == v.lvl = 0

---------------------------------------------------------------------------
(* Task rows *)

Usernames == {"alice"}

Guest == "guest"

Row(id, user, title, category, due, done, recurrence, extra, notified, xp) ==
    [id |-> id, user |-> user, title |-> title, category |-> category,
     due |-> due, done |-> done, recurrence |-> recurrence,
     recurrence_extra |-> extra, notified |-> notified, xp |-> xp]

\* the result of a lookup that finds nothing (None)
NoRow == Row(0, "", "", "", <<>>, 0, "none", EmptyDict, 0, 0)

\* Python truthiness of the 0/1 and False/True flags (True == 1, False == 0)
Truthy(x) == x # 0

Flag(b) == IF b THEN 1 ELSE 0

\* position of the first row with this id, 0 when there is none
IndexOf(tbl, id) ==
    IF \E i \in 1 .. Len(tbl) : tbl[i].id = id
    THEN CHOOSE i \in 1 .. Len(tbl) :
             tbl[i].id = id /\ \A j \in 1 .. i - 1 : tbl[j].id # id
    ELSE 0

Ids(tbl) == {tbl[i].id : i \in 1 .. Len(tbl)}

Without(tbl, id) == SelectSeq(tbl, LAMBDA r : r.id # id)

\* row with the fields named in f overwritten
Merge(row, f) == [k \in DOMAIN row |-> IF k \in DOMAIN f THEN f[k] ELSE row[k]]

---------------------------------------------------------------------------
(* Storage of upgraded_task.py (SQLite) *)

\* SELECT * FROM tasks WHERE id=?
Storage_get_task(tbl, id) ==
    IF IndexOf(tbl, id) = 0 THEN NoRow ELSE tbl[IndexOf(tbl, id)]

\* SELECT * FROM tasks [WHERE user=?]
Storage_list_tasks(tbl, user) ==
    IF user # "" THEN SelectSeq(tbl, LAMBDA r : r.user = user) ELSE tbl

\* INSERT OR REPLACE of the task, its recurrence_extra passed through json.dumps;
\* fresh is the uuid4() used when the task carries no id
Storage_add_task(tbl, task, fresh) ==
    LET id == IF task.id # 0 THEN task.id ELSE fresh
    IN  Append(Without(tbl, id),
               Row(id, task.user, task.title, task.category, task.due,
                   Flag(Truthy(task.done)),
                   IF task.recurrence # "" THEN task.recurrence ELSE "none",
                   json_dumps(task.recurrence_extra),
                   Flag(Truthy(task.notified)), task.xp))

\* an UPDATE that also inverts the notified column when it is not given
Storage_update_task_FlipsNotified(tbl, id, fields) ==
    [i \in 1 .. Len(tbl) |->
        IF tbl[i].id = id /\ "notified" \notin DOMAIN fields
        THEN [Merge(tbl[i], fields) EXCEPT !.notified = 1 - tbl[i].notified]
        ELSE IF tbl[i].id = id THEN Merge(tbl[i], fields) ELSE tbl[i]]

\* UPDATE tasks SET <fields> WHERE id=?
Storage_update_task(tbl, id, fields) ==
    [i \in 1 .. Len(tbl) |-> IF tbl[i].id = id THEN Merge(tbl[i], fields) ELSE tbl[i]]

\* DELETE FROM tasks WHERE id=?
Storage_delete_task(tbl, id) == Without(tbl, id)

\* INSERT OR REPLACE INTO users ... (username, hash, 0, 0, None)
Storage_add_user(tbl, username) ==
    [u \in DOMAIN tbl \cup {username} |->
        IF u = username THEN [coins |-> 0, streak |-> 0, last_completed |-> <<>>]
        ELSE tbl[u]]

\* UPDATE users SET <fields> WHERE username=?
Storage_update_user(tbl, username, fields) ==
    [u \in DOMAIN tbl |-> IF u = username THEN Merge(tbl[u], fields) ELSE tbl[u]]

---------------------------------------------------------------------------
(* Reward *)

\* "work" in category.lower()
HasWork(cat) == cat \in {"Work"}

\* "urgent" in cat or "important" in cat
HasUrgent(cat) == cat \in {"Urgent", "Important"}

Min(a, b) == IF a < b THEN a ELSE b

award_xp_for_task(task) ==
    10 + (IF HasWork(task.category) THEN 5 ELSE 0)
       + (IF HasUrgent(task.category) THEN 10 ELSE 0)
       + Min(20, Len(task.title) \div 5)

---------------------------------------------------------------------------
(* Recurrence *)

\* outcome of a computation that may raise: the value, or raised = TRUE
Returned(v) == [raised |-> FALSE, next |-> v]

Raised == [raised |-> TRUE, next |-> NoneDT]

\* sorted(days)
RECURSIVE sorted(_)
sorted(S) ==
    IF S = {} THEN <<>>
    ELSE LET m == CHOOSE x \in S : \A y \in S : x <= y
         IN  <<m>> \o sorted(S \ {m})

\* a search that also accepts the weekday of the due itself
RECURSIVE FirstGreater_Inclusive(_, _, _)
FirstGreater_Inclusive(days_sorted, i, wd) ==
    IF i > Len(days_sorted) THEN 0 - 1
    ELSE IF days_sorted[i] >= wd THEN days_sorted[i]
    ELSE FirstGreater_Inclusive(days_sorted, i + 1, wd)

\* for d in days_sorted: if d > wd: found = d; break     (-1 stands for None)
RECURSIVE FirstGreater(_, _, _)
FirstGreater(days_sorted, i, wd) ==
    IF i > Len(days_sorted) THEN 0 - 1
    ELSE IF days_sorted[i] > wd THEN days_sorted[i]
    ELSE FirstGreater(days_sorted, i + 1, wd)

\* delta_days of the weekday branch
WeekdayDelta(days, wd) ==
    LET days_sorted == sorted(days)
        found       == FirstGreater(days_sorted, 1, wd)
    IN  IF found = 0 - 1 THEN (7 - wd) + days_sorted[1] ELSE found - wd

\* a custom branch that falls back to a week when nothing is configured
App_custom_next_due_DefaultWeekly(task, due) ==
    LET extra == json_loads(task.recurrence_extra)
    IN  IF ~IsDict(extra) THEN Raised
        ELSE IF extra.every_x_days # 0
             THEN Returned(AddDays(due, extra.every_x_days))
        ELSE IF extra.weekdays # {}
             THEN Returned(AddDays(due, WeekdayDelta(extra.weekdays, weekday(due))))
        ELSE Returned(AddDays(due, 7))

\* next_due of the custom branch of _handle_recurrence_after_completion
App_custom_next_due(task, due) ==
    LET extra == json_loads(task.recurrence_extra)
    IN  IF ~IsDict(extra) THEN Raised        \* str has no attribute 'get'
        ELSE IF extra.every_x_days # 0
             THEN Returned(AddDays(due, extra.every_x_days))
        ELSE IF extra.weekdays # {}
             THEN Returned(AddDays(due, WeekdayDelta(extra.weekdays, weekday(due))))
        ELSE Returned(NoneDT)

\* a rollover counted from the day of completion instead of the stored due
App_next_due_FromToday(task) ==
    LET rec == task.recurrence
        due == parse_iso(task.due)
        day == (DateOf(now) * SecondsPerDay) + (due % SecondsPerDay)
    IN  IF due = NoneDT THEN Returned(NoneDT)
        ELSE IF rec = "daily" THEN Returned(AddDays(day, 1))
        ELSE IF rec = "weekly" THEN Returned(AddDays(day, 7))
        ELSE IF rec = "monthly" THEN Returned(AddMonth(day))
        ELSE IF rec = "custom" THEN App_custom_next_due(task, day)
        ELSE Returned(NoneDT)

\* next_due of _handle_recurrence_after_completion (upgraded_task.py)
App_next_due(task) ==
    LET rec == task.recurrence
        due == parse_iso(task.due)
    IN  IF due = NoneDT THEN Returned(NoneDT)
        ELSE IF rec = "daily" THEN Returned(AddDays(due, 1))
        ELSE IF rec = "weekly" THEN Returned(AddDays(due, 7))
        ELSE IF rec = "monthly" THEN Returned(AddMonth(due))
        ELSE IF rec = "custom" THEN App_custom_next_due(task, due)
        ELSE Returned(NoneDT)

\* next_due of _schedule_next_for_recurring (task.py)
Zen_next_due(task) ==
    LET rec == task.recurrence
        due == parse_iso(task.due)
    IN  IF rec = "none" \/ due = NoneDT THEN Returned(NoneDT)
        ELSE IF rec = "daily" THEN Returned(AddDays(due, 1))
        ELSE IF rec = "weekly" THEN Returned(AddDays(due, 7))
        ELSE IF rec = "monthly" THEN Returned(AddDays(due, 30))
        ELSE Returned(NoneDT)

\* a rollover that keeps the id of the completed task
NewOccurrence_SameId(task, fresh, next_due) ==
    [task EXCEPT !.due = isoformat(next_due),
                 !.done = Flag(FALSE), !.notified = Flag(FALSE)]

\* a rollover that copies the completed task's notified flag
NewOccurrence_KeepNotified(task, fresh, next_due) ==
    [task EXCEPT !.id = fresh, !.due = isoformat(next_due), !.done = Flag(FALSE)]

\* new_task = dict(task) with a fresh id, the next due, done and notified False
NewOccurrence(task, fresh, next_due) ==
    [task EXCEPT !.id = fresh, !.due = isoformat(next_due),
                 !.done = Flag(FALSE), !.notified = Flag(FALSE)]

---------------------------------------------------------------------------
(* Configuration and inputs *)

\* window_start = now - timedelta(minutes=1)
GraceWindowMin == 1

\* NOTIFY_LOOKAHEAD_MIN / timedelta(minutes=0)
LookaheadMin == 0

\* DEFAULT_SNOOZE_OPTIONS / SNOOZE_OPTIONS
SnoozeOptions == {5, 10, 15, 30, 60}

\* the clock when the program starts: Wednesday 2024-01-31 09:00:00
Now0 == datetime(2024, 1, 31, 9, 0, 0)

\* datetime.utcnow() for a machine three hours east of UTC
UtcOffset == 3 * 3600

utcnow == now - UtcOffset

\* due times picked when adding a task in the main specification
AddDues == {<<2024, 1, 31, 9, 0, 0>>}

\* due times picked in the edit dialog in the main specification
EditDues == {<<2024, 1, 31, 9, 0, 0>>, <<2024, 1, 31, 9, 5, 0>>}

\* a snoozed due is explored up to this time
SnoozeHorizon == datetime(2024, 1, 31, 9, 5, 0)

Titles == {"Pay rent"}

Categories == {"Work"}

AllIds == 1 .. MaxOps

---------------------------------------------------------------------------
(* History variables *)

\* op: the operation; id: the task it was asked about; pre: that task's row as
\* the operation read it (NoRow when none); n: the number of rows before it;
\* created: the id given to the row it inserted (0 when none); raised: it ended
\* with an exception; event: it emitted a due-event
Op(op, id, pre, created, raised, event) ==
    [op |-> op, id |-> id, pre |-> pre, n |-> Len(tasks), created |-> created,
     raised |-> raised, event |-> event]

\* the due of id changed: a new occurrence
DueChanged(ev, id) == [ev EXCEPT ![id] = 0]

\* a due-event was emitted for id
Emitted(ev, id) == [ev EXCEPT ![id] = Min(@ + 1, 2)]

frame_notifier == UNCHANGED <<npc, nNow, nTasks, nIdx, pass>>

frame_env == UNCHANGED <<prog, now, mirror, mongo, backup, stop_thread, uipc>>

\* a foreground operation, counted against the bound of the run; the window
\* takes input once the constructor has run
Foreground ==
    /\ npc # "off" /\ ~stop_thread /\ uipc = "idle"
    /\ ops < MaxOps /\ ops' = ops + 1

\* the handlers of ToDoZenApp are modelled for a Storage that holds no
\* collection (no mongod answered at start): _sync_task_to_mongo returns at once
NoMirror == ~mongo.collection

---------------------------------------------------------------------------
(* Foreground operations of upgraded_task.py *)

\* _continue_as_guest
App_continue_as_guest ==
    /\ prog = "app" /\ current_user = ""
    /\ current_user' = Guest
    /\ last' = Op("login", 0, NoRow, 0, FALSE, FALSE)
    /\ frame_notifier /\ frame_env
    /\ UNCHANGED <<tasks, file, nextId, ops, users, evDue, evArm>>

\* register_user
App_register_user(u) ==
    /\ prog = "app" /\ current_user = ""
    /\ users' = Storage_add_user(users, u)
    /\ current_user' = u
    /\ last' = Op("login", 0, NoRow, 0, FALSE, FALSE)
    /\ frame_notifier /\ frame_env
    /\ UNCHANGED <<tasks, file, nextId, ops, evDue, evArm>>

\* the cards on screen are those of list_tasks(user=current_user): a handler
\* is called with the id of a task of the current user (or of a row now gone)
OnCard(id) ==
    Storage_get_task(tasks, id) = NoRow \/ Storage_get_task(tasks, id).user = current_user

\* the task dict built by _add_task_from_ui
App_new_task(id, user, title, cat, due, recur, days, weekdays) ==
    Row(id, user, title, cat, due, Flag(FALSE), recur,
        IF recur = "custom" THEN Dict(days, weekdays) ELSE EmptyDict,
        Flag(FALSE), 0)

\* _add_task_from_ui
App_add_task_from_ui(title, cat, due, recur, days, weekdays) ==
    /\ prog = "app" /\ NoMirror /\ current_user # "" /\ Foreground
    /\ tasks' = Storage_add_task(tasks,
                    App_new_task(nextId, current_user, title, cat, due, recur, days, weekdays),
                    nextId)
    /\ nextId' = nextId + 1
    /\ last' = Op("add", nextId, NoRow, nextId, FALSE, FALSE)
    /\ frame_notifier /\ frame_env
    /\ UNCHANGED <<file, current_user, users, evDue, evArm>>

\* a reward that extends the streak on every completion
App_reward_AlwaysExtends(user, xp) ==
    [coins  |-> user.coins + (xp \div 5),
     streak |-> user.streak + 1,
     last_completed |-> isoformat(utcnow)]

\* the profile after a completion: coins, streak and last_completed
App_reward(user, xp) ==
    LET last_dt == IF user.last_completed # <<>>
                   THEN parse_iso(user.last_completed) ELSE NoneDT
        today   == DateOf(now)
    IN  [coins  |-> user.coins + (xp \div 5),
         streak |-> IF last_dt # NoneDT /\ DateOf(last_dt) = today - 1
                    THEN user.streak + 1
                    ELSE IF last_dt # NoneDT /\ DateOf(last_dt) = today
                    THEN user.streak
                    ELSE 1,
         last_completed |-> isoformat(utcnow)]

\* the store after _handle_recurrence_after_completion(task)
App_handle_recurrence_after_completion(tbl, task, fresh) ==
    LET out == App_next_due(task)
    IN  IF ~out.raised /\ out.next # NoneDT
        THEN Storage_add_task(tbl, NewOccurrence(task, fresh, out.next), fresh)
        ELSE tbl

\* a reward given on every toggle of a user with a profile
App_awards_AnyToggle(new_done, has_user) == has_user

\* if new_done: ... user = get_user(current_user); if user: (reward and xp)
App_awards(new_done, has_user) == new_done /\ has_user

\* _toggle_done
App_toggle_done(id) ==
    LET task     == Storage_get_task(tasks, id)
        new_done == ~Truthy(task.done)
        xp       == award_xp_for_task(task)
        has_user == current_user \in DOMAIN users
        recurs   == task.recurrence # "" /\ task.recurrence # "none"
        out      == App_next_due(task)
        creates  == new_done /\ recurs /\ ~out.raised /\ out.next # NoneDT
        t1       == Storage_update_task(tasks, id, [done |-> Flag(new_done)])
        t2       == IF App_awards(new_done, has_user)
                    THEN Storage_update_task(t1, id, [xp |-> xp]) ELSE t1
        t3       == IF new_done /\ recurs
                    THEN App_handle_recurrence_after_completion(t2, task, nextId)
                    ELSE t2
    IN  /\ prog = "app" /\ NoMirror /\ current_user # "" /\ Foreground /\ OnCard(id)
        /\ IF task = NoRow
           THEN /\ last' = Op("toggle", id, NoRow, 0, FALSE, FALSE)
                /\ UNCHANGED <<tasks, users, nextId>>
           ELSE /\ tasks' = t3
                /\ users' = IF App_awards(new_done, has_user)
                            THEN Storage_update_user(users, current_user,
                                     App_reward(users[current_user], xp))
                            ELSE users
                /\ nextId' = IF creates THEN nextId + 1 ELSE nextId
                /\ last' = Op("toggle", id, task, IF creates THEN nextId ELSE 0,
                              new_done /\ recurs /\ out.raised, FALSE)
        /\ frame_notifier /\ frame_env
        /\ UNCHANGED <<file, current_user, evDue, evArm>>

\* save_and_close of _open_edit_dialog
App_save_and_close(id, newdt) ==
    LET task == Storage_get_task(tasks, id)
    IN  /\ prog = "app" /\ NoMirror /\ current_user # "" /\ Foreground /\ OnCard(id)
        /\ task # NoRow
        /\ tasks' = Storage_update_task(tasks, id, [due |-> newdt, notified |-> 0])
        /\ evDue' = DueChanged(evDue, id)
        /\ evArm' = DueChanged(evArm, id)
        /\ last' = Op("edit", id, task, 0, FALSE, FALSE)
        /\ frame_notifier /\ frame_env
        /\ UNCHANGED <<file, nextId, current_user, users>>

\* _delete_task
App_delete_task(id) ==
    /\ prog = "app" /\ NoMirror /\ current_user # "" /\ Foreground /\ OnCard(id)
    /\ id \in Ids(tasks)
    /\ tasks' = Storage_delete_task(tasks, id)
    /\ last' = Op("delete", id, Storage_get_task(tasks, id), 0, FALSE, FALSE)
    /\ frame_notifier /\ frame_env
    /\ UNCHANGED <<file, nextId, current_user, users, evDue, evArm>>

\* _snooze_choice
App_snooze_choice(id, mins) ==
    LET task    == Storage_get_task(tasks, id)
        due     == parse_iso(task.due)
        new_due == AddMinutes(due, mins)
    IN  /\ prog = "app" /\ NoMirror /\ current_user # "" /\ Foreground /\ OnCard(id)
        /\ IF task = NoRow \/ due = NoneDT
           THEN /\ last' = Op("snooze", id, task, 0, FALSE, FALSE)
                /\ UNCHANGED <<tasks, evDue, evArm>>
           ELSE /\ new_due <= SnoozeHorizon
                /\ tasks' = Storage_update_task(tasks, id,
                                [due |-> isoformat(new_due), notified |-> 0])
                /\ evDue' = DueChanged(evDue, id)
                /\ evArm' = DueChanged(evArm, id)
                /\ last' = Op("snooze", id, task, 0, FALSE, FALSE)
        /\ frame_notifier /\ frame_env
        /\ UNCHANGED <<file, nextId, current_user, users>>

---------------------------------------------------------------------------
(* Foreground operations of task.py *)

\* the key of render_tasks: parse_iso(due) or datetime.max
due_key(t) ==
    IF parse_iso(t.due) # NoneDT THEN parse_iso(t.due) ELSE datetime(2028, 1, 1, 0, 0, 0)

\* list.sort(key=due_key), which is stable
RECURSIVE SortByDue(_)
SortByDue(seq) ==
    IF seq = <<>> THEN <<>>
    ELSE LET i == CHOOSE k \in 1 .. Len(seq) :
                      /\ \A j \in 1 .. Len(seq) : due_key(seq[k]) <= due_key(seq[j])
                      /\ \A j \in 1 .. k - 1 : due_key(seq[j]) # due_key(seq[k])
         IN  <<seq[i]>> \o SortByDue(SubSeq(seq, 1, i - 1) \o SubSeq(seq, i + 1, Len(seq)))

\* the notifier iterates over the same dict objects as self.tasks: what a
\* foreground operation writes to a task is what the notifier then reads
Alias(lst, tbl) ==
    [i \in 1 .. Len(lst) |->
        IF lst[i].id \in Ids(tbl) THEN tbl[IndexOf(tbl, lst[i].id)] ELSE lst[i]]

\* collection.replace_one({"id": doc["id"]}, doc, upsert=True)
replace_one(mir, doc) ==
    IF IndexOf(mir, doc.id) # 0
    THEN [mir EXCEPT ![IndexOf(mir, doc.id)] = doc]
    ELSE Append(mir, doc)

\* for t in tasks: collection.replace_one({"id": t.get("id")}, t_clean, upsert=True)
RECURSIVE UpsertAll(_, _)
UpsertAll(mir, tbl) ==
    IF tbl = <<>> THEN mir
    ELSE UpsertAll(replace_one(mir, Head(tbl)), Tail(tbl))

\* a save that upserts and never deletes remotely
Zen_save_NoDelete(mir, tbl) == UpsertAll(mir, tbl)

\* Storage.save of task.py on a collection that answers: the upserts, then
\* delete_many of the remote ids that are not local (an id of 0 is no id)
Zen_save(mir, tbl) ==
    LET upserted   == UpsertAll(mir, tbl)
        remote_ids == {i \in Ids(upserted) : i # 0}
        local_ids  == {i \in Ids(tbl) : i # 0}
        to_delete  == remote_ids \ local_ids
    IN  SelectSeq(upserted, LAMBDA d : d.id \notin to_delete)

\* str(_id) of a document: one ObjectId per document, told apart from the uuids
OidId(doc) == 100 + doc.id

\* Storage.load of task.py from the collection: t["id"] = str(_id)
Zen_load(mir) == [i \in 1 .. Len(mir) |-> [mir[i] EXCEPT !.id = OidId(mir[i])]]

\* tasks.json after _persist(): written only when no collection is in use
Zen_saved_file(tbl) == IF mongo.collection THEN file ELSE tbl

\* the collection after _persist(): an error of the mongod is caught and printed
Zen_saved_mirror(tbl) ==
    IF mongo.collection /\ mongo.up THEN Zen_save(mirror, tbl) ELSE mirror

\* the end of every foreground operation of task.py: _persist(), then render_tasks()
Zen_commit(tbl) ==
    /\ file' = Zen_saved_file(tbl)
    /\ mirror' = Zen_saved_mirror(tbl)
    /\ tasks' = SortByDue(tbl)
    /\ nTasks' = Alias(nTasks, tbl)
    /\ UNCHANGED <<npc, nNow, nIdx, pass>>
    /\ UNCHANGED <<prog, stop_thread, uipc, now, mongo, backup>>
    /\ UNCHANGED <<current_user, users>>

\* the task dict built by add_task (it has no user, recurrence_extra or xp key)
Zen_new_task(id, title, cat, due, recur) ==
    Row(id, "", title, cat, due, Flag(FALSE), recur, EmptyDict, Flag(FALSE), 0)

\* add_task
Zen_add_task(title, cat, due, recur) ==
    /\ prog = "zen" /\ Foreground
    /\ Zen_commit(Append(tasks, Zen_new_task(nextId, title, cat, due, recur)))
    /\ nextId' = nextId + 1
    /\ last' = Op("add", nextId, NoRow, nextId, FALSE, FALSE)
    /\ UNCHANGED <<evDue, evArm>>

\* the list after _schedule_next_for_recurring(task)
Zen_schedule_next_for_recurring(tbl, task, fresh) ==
    LET out == Zen_next_due(task)
    IN  IF out.next # NoneDT
        THEN Append(tbl, NewOccurrence(task, fresh, out.next))
        ELSE tbl

\* toggle_done
Zen_toggle_done(id) ==
    LET i        == IndexOf(tasks, id)
        task     == tasks[i]
        new_done == ~Truthy(task.done)
        t        == [task EXCEPT !.done = Flag(new_done)]
        recurs   == t.recurrence # "none"
        creates  == new_done /\ recurs /\ Zen_next_due(t).next # NoneDT
        t1       == [tasks EXCEPT ![i] = IF new_done THEN t
                                         ELSE [t EXCEPT !.notified = Flag(FALSE)]]
        t2       == IF new_done /\ recurs
                    THEN Zen_schedule_next_for_recurring(t1, t, nextId) ELSE t1
    IN  /\ prog = "zen" /\ Foreground
        /\ IF i = 0
           THEN /\ Zen_commit(tasks)
                /\ last' = Op("toggle", id, NoRow, 0, FALSE, FALSE)
                /\ UNCHANGED <<nextId, evArm>>
           ELSE /\ Zen_commit(t2)
                /\ nextId' = IF creates THEN nextId + 1 ELSE nextId
                /\ evArm' = IF new_done THEN evArm ELSE DueChanged(evArm, id)
                /\ last' = Op("toggle", id, task, IF creates THEN nextId ELSE 0,
                              FALSE, FALSE)
        /\ UNCHANGED evDue

\* delete_task
Zen_delete_task(id) ==
    /\ prog = "zen" /\ Foreground
    /\ id \in Ids(tasks)
    /\ Zen_commit(Without(tasks, id))
    /\ last' = Op("delete", id, Storage_get_task(tasks, id), 0, FALSE, FALSE)
    /\ UNCHANGED <<nextId, evDue, evArm>>

\* snooze_task
Zen_snooze_task(id, mins) ==
    LET i       == IndexOf(tasks, id)
        task    == tasks[i]
        due     == parse_iso(task.due)
        new_due == AddMinutes(due, mins)
    IN  /\ prog = "zen" /\ Foreground
        /\ i # 0 /\ due # NoneDT
        /\ new_due <= SnoozeHorizon
        /\ Zen_commit([tasks EXCEPT ![i] = [task EXCEPT !.due = isoformat(new_due),
                                                        !.notified = Flag(FALSE)]])
        /\ evDue' = DueChanged(evDue, id)
        /\ evArm' = DueChanged(evArm, id)
        /\ last' = Op("snooze", id, task, 0, FALSE, FALSE)
        /\ UNCHANGED nextId

\* edit_task_due
Zen_edit_task_due(id, new_dt) ==
    LET i    == IndexOf(tasks, id)
        task == tasks[i]
    IN  /\ prog = "zen" /\ Foreground
        /\ i # 0
        /\ Zen_commit([tasks EXCEPT ![i] = [task EXCEPT !.due = new_dt,
                                                        !.notified = Flag(FALSE)]])
        /\ evDue' = DueChanged(evDue, id)
        /\ evArm' = DueChanged(evArm, id)
        /\ last' = Op("edit", id, task, 0, FALSE, FALSE)
        /\ UNCHANGED nextId

---------------------------------------------------------------------------
(* The notifier thread (_notifier_loop of both programs) *)

\* a window with no lower edge: every past due is in it
InWindow_NoGrace(due, at) == due <= AddMinutes(at, LookaheadMin)

\* a window that opens a minute before the due
InWindow_Lookahead(due, at) ==
    AddMinutes(at, 0 - GraceWindowMin) <= due /\ due <= AddMinutes(at, 1)

\* a window without grace: the due must be the clock reading of the pass
InWindow_NoJitter(due, at) == at <= due /\ due <= AddMinutes(at, LookaheadMin)

\* window_start <= due <= window_end
InWindow(due, at) ==
    AddMinutes(at, 0 - GraceWindowMin) <= due /\ due <= AddMinutes(at, LookaheadMin)

\* a test that does not look at the notified flag
ShouldNotify_IgnoreNotified(t, at) ==
    /\ ~Truthy(t.done)
    /\ parse_iso(t.due) # NoneDT
    /\ AddMinutes(at, 0 - GraceWindowMin) <= parse_iso(t.due)
    /\ parse_iso(t.due) <= AddMinutes(at, LookaheadMin)

\* the test a pass applies to a task before it notifies
ShouldNotify(t, at) ==
    /\ ~Truthy(t.done)
    /\ ~Truthy(t.notified)
    /\ parse_iso(t.due) # NoneDT
    /\ InWindow(parse_iso(t.due), at)

\* no pass is under way
NoPass == [due |-> {}, failed |-> {}]

\* the ids of the tasks of lst that a pass reading the clock at `at` is to notify
DueIds(lst, at) == {lst[i].id : i \in {j \in 1 .. Len(lst) : ShouldNotify(lst[j], at)}}

\* a loop that stops at the first task it notified
NextCandidate_Break(idx, lst) == Len(lst) + 1

\* the for loop goes on to the next task of the list
NextCandidate(idx, lst) == idx + 1

\* a loop that never looks at the stop event
LoopContinues_Always == TRUE

\* while not self._stop_thread.is_set(): / while not self._stop_event.is_set():
LoopContinues == ~stop_thread

\* top of the loop, entered while the stop event is not set:
\* now = datetime.now(); tasks = list_tasks(...) / list(self.tasks)
Notifier_start_pass ==
    /\ npc = "sleep" /\ LoopContinues
    /\ nNow' = now
    /\ nTasks' = IF prog = "app" THEN Storage_list_tasks(tasks, current_user) ELSE tasks
    /\ nIdx' = 1
    /\ npc' = "scan"
    /\ pass' = [due |-> DueIds(nTasks', now), failed |-> {}]
    /\ last' = Op("start_pass", 0, NoRow, 0, FALSE, FALSE)
    /\ frame_env
    /\ UNCHANGED <<tasks, file, nextId, ops, current_user, users, evDue, evArm>>

\* one iteration of the for loop up to the notification
Notifier_examine ==
    /\ npc = "scan" /\ nIdx <= Len(nTasks)
    /\ LET t == nTasks[nIdx]
       IN  IF ShouldNotify(t, nNow)
           THEN /\ npc' = "mark"
                /\ nIdx' = nIdx
                /\ evDue' = Emitted(evDue, t.id)
                /\ evArm' = Emitted(evArm, t.id)
                /\ last' = Op("examine", t.id, t, 0, FALSE, TRUE)
           ELSE /\ npc' = "scan"
                /\ nIdx' = nIdx + 1
                /\ last' = Op("examine", t.id, t, 0, FALSE, FALSE)
                /\ UNCHANGED <<evDue, evArm>>
    /\ frame_env
    /\ UNCHANGED <<tasks, file, nextId, ops, current_user, users, nNow, nTasks, pass>>

\* a marking that also ticks the task off
Zen_mark_AlsoDone(tbl, id) ==
    [i \in 1 .. Len(tbl) |->
        IF tbl[i].id = id THEN [tbl[i] EXCEPT !.notified = Flag(TRUE), !.done = Flag(TRUE)]
        ELSE tbl[i]]

\* the list after t["notified"] = True on the dict object the pass holds
Zen_mark(tbl, id) ==
    [i \in 1 .. Len(tbl) |->
        IF tbl[i].id = id THEN [tbl[i] EXCEPT !.notified = Flag(TRUE)] ELSE tbl[i]]

\* the rest of the iteration: update_task(id, notified=1) / t["notified"] = True; _persist()
\* (the connection of upgraded_task.py takes the UPDATE only while it is open)
Notifier_mark ==
    /\ npc = "mark"
    /\ prog = "app" => ~stop_thread
    /\ LET t == nTasks[nIdx]
       IN  /\ tasks' = IF prog = "app"
                       THEN Storage_update_task(tasks, t.id, [notified |-> 1])
                       ELSE Zen_mark(tasks, t.id)
           /\ nTasks' = IF prog = "app" THEN nTasks ELSE Zen_mark(nTasks, t.id)
           /\ file' = IF prog = "app" THEN file ELSE Zen_saved_file(Zen_mark(tasks, t.id))
           /\ mirror' = IF prog = "app" THEN mirror
                         ELSE Zen_saved_mirror(Zen_mark(tasks, t.id))
           /\ last' = Op("mark", t.id, t, 0, FALSE, FALSE)
    /\ prog = "app" => NoMirror
    /\ npc' = "scan"
    /\ nIdx' = NextCandidate(nIdx, nTasks)
    /\ UNCHANGED <<prog, stop_thread, uipc, now, mongo, backup>>
    /\ UNCHANGED <<nextId, ops, current_user, users, nNow, pass, evDue, evArm>>

\* the for loop is over: time.sleep(NOTIFY_CHECK_INTERVAL)
Notifier_end_pass ==
    /\ npc = "scan" /\ nIdx > Len(nTasks)
    /\ npc' = "sleep"
    /\ nNow' = 0 /\ nTasks' = <<>> /\ nIdx' = 0
    /\ pass' = NoPass
    /\ last' = Op("end_pass", 0, NoRow, 0, FALSE, FALSE)
    /\ frame_env
    /\ UNCHANGED <<tasks, file, nextId, ops, current_user, users, evDue, evArm>>

\* a minute passes
Tick ==
    /\ now < AddMinutes(Now0, MaxTicks)
    /\ now' = AddMinutes(now, 1)
    /\ last' = Op("tick", 0, NoRow, 0, FALSE, FALSE)
    /\ UNCHANGED <<prog, stop_thread, uipc, tasks, file, nextId, ops, current_user, users,
                   npc, nNow, nTasks, nIdx, pass, mirror, mongo, backup, evDue, evArm>>

---------------------------------------------------------------------------
(* The main specification: either program, from an empty store *)

NoUsers == [u \in {} |-> 0]

\* mongo_collection is None (use_mongo is False): no mongod answered at start
NoMongo == [collection |-> FALSE, up |-> FALSE, strict |-> FALSE]

\* no backup file has been exported
NoBackup == [exists |-> FALSE, rows |-> <<>>]

Init ==
    /\ prog \in {"app", "zen"}
    /\ now = Now0
    /\ tasks = <<>> /\ file = <<>>
    /\ nextId = 1 /\ ops = 0
    /\ current_user = ""
    /\ users = NoUsers
    /\ npc = "sleep" /\ nNow = 0 /\ nTasks = <<>> /\ nIdx = 0
    /\ mirror = <<>> /\ mongo = NoMongo /\ backup = NoBackup
    /\ stop_thread = FALSE /\ uipc = "idle" /\ pass = NoPass
    /\ evDue = [i \in AllIds |-> 0]
    /\ evArm = [i \in AllIds |-> 0]
    /\ last = Op("init", 0, NoRow, 0, FALSE, FALSE)

\* recurrences offered when adding a task in the main specification
RecurChoices == {"none", "daily"}

SnoozeChoices == {5}

Next ==
    \/ App_continue_as_guest
    \/ \E u \in Usernames : App_register_user(u)
    \/ \E ti \in Titles, c \in Categories, d \in AddDues, r \in RecurChoices :
           App_add_task_from_ui(ti, c, d, r, 0, {})
    \/ \E id \in AllIds : App_toggle_done(id)
    \/ \E id \in AllIds, d \in EditDues : App_save_and_close(id, d)
    \/ \E id \in AllIds : App_delete_task(id)
    \/ \E id \in AllIds, m \in SnoozeChoices : App_snooze_choice(id, m)
    \/ \E ti \in Titles, c \in Categories, d \in AddDues, r \in RecurChoices :
           Zen_add_task(ti, c, d, r)
    \/ \E id \in AllIds : Zen_toggle_done(id)
    \/ \E id \in AllIds : Zen_delete_task(id)
    \/ \E id \in AllIds, m \in SnoozeChoices : Zen_snooze_task(id, m)
    \/ \E id \in AllIds, d \in EditDues : Zen_edit_task_due(id, d)
    \/ Notifier_start_pass
    \/ Notifier_examine
    \/ Notifier_mark
    \/ Notifier_end_pass
    \/ Tick

Spec == Init /\ [][Next]_vars

---------------------------------------------------------------------------
(* The recurrence specification: one stored task of any recurrence, due on *)
(* any of a set of calendar days, possibly already notified, completed and *)
(* un-completed at a clock before or after its due.  The program starts at *)
(* its login screen or logged in, over the database of an earlier run.     *)

RecurDues ==
    {<<2024, 1, 29, 9, 0, 0>>,      \* Monday
     <<2024, 1, 30, 9, 0, 0>>,      \* Tuesday
     <<2024, 1, 31, 9, 0, 0>>,      \* Wednesday, leap year
     <<2024, 2, 1, 9, 0, 0>>,       \* Thursday
     <<2024, 2, 4, 18, 30, 0>>,     \* Sunday
     <<2024, 2, 29, 9, 0, 0>>,
     <<2024, 3, 31, 9, 0, 0>>,
     <<2024, 12, 31, 23, 55, 0>>,
     <<2025, 1, 31, 9, 0, 0>>}      \* not a leap year

\* the clock at a completion: 31 January 09:00, three days later, and a night
\* hour (1 February 01:30, which is 31 January 22:30 UTC)
RecurClocks == {Now0, AddDays(Now0, 3), datetime(2024, 2, 1, 1, 30, 0)}

EveryChoices == {0, 1, 3}

WeekdaySets == {{}, {0, 3}, {1, 4}, {2}, {6}, 0 .. 6}

\* last_completed of a profile that has completions: 28, 30 and 31 January (UTC)
LastCompletedChoices ==
    {<<2024, 1, 28, 6, 0, 0>>, <<2024, 1, 30, 6, 0, 0>>, <<2024, 1, 31, 5, 0, 0>>}

\* the table users: empty, a profile just registered, or one with two completions
ProfileTables ==
    {NoUsers}
        \cup {Storage_add_user(NoUsers, u) : u \in Usernames}
        \cup {Storage_update_user(Storage_add_user(NoUsers, u), u,
                  [coins |-> 6, streak |-> 2, last_completed |-> lc]) :
                  u \in Usernames, lc \in LastCompletedChoices}

InitRecur ==
    /\ prog \in {"app", "zen"}
    /\ now \in RecurClocks
    /\ nextId = 2 /\ ops = 0
    /\ users \in (IF prog = "app" THEN ProfileTables ELSE {NoUsers})
    /\ \A u \in DOMAIN users :
          users[u].last_completed # <<>> => parse_iso(users[u].last_completed) <= utcnow
    /\ current_user \in (IF prog = "app" THEN {"", Guest} \cup DOMAIN users ELSE {""})
    /\ \E ti \in Titles, c \in Categories, d \in RecurDues, nf \in {0, 1},
          o \in (IF current_user # "" THEN {current_user} ELSE {Guest} \cup DOMAIN users) :
          \/ /\ prog = "app"
             /\ \E r \in {"none", "daily", "weekly", "monthly"} :
                   tasks = Storage_update_task(
                               Storage_add_task(<<>>,
                                   App_new_task(1, o, ti, c, d, r, 0, {}), 1),
                               1, [notified |-> nf])
          \/ /\ prog = "app"
             /\ \E n \in EveryChoices, w \in WeekdaySets :
                   tasks = Storage_update_task(
                               Storage_add_task(<<>>,
                                   App_new_task(1, o, ti, c, d, "custom", n, w), 1),
                               1, [notified |-> nf])
          \/ /\ prog = "zen"
             /\ \E r \in {"none", "daily", "weekly", "monthly"} :
                   tasks = Zen_mark(<<Zen_new_task(1, ti, c, d, r)>>, IF nf = 1 THEN 1 ELSE 0)
    /\ file = IF prog = "zen" THEN tasks ELSE <<>>
    /\ npc = "sleep" /\ nNow = 0 /\ nTasks = <<>> /\ nIdx = 0
    /\ mirror = <<>> /\ mongo = NoMongo /\ backup = NoBackup
    /\ stop_thread = FALSE /\ uipc = "idle" /\ pass = NoPass
    /\ evDue = [i \in AllIds |-> IF i = 1 THEN tasks[1].notified ELSE 0]
    /\ evArm = [i \in AllIds |-> IF i = 1 THEN tasks[1].notified ELSE 0]
    /\ last = [op |-> "init", id |-> 0, pre |-> NoRow, n |-> 0, created |-> 0,
               raised |-> FALSE, event |-> FALSE]

NextRecur ==
    \/ App_continue_as_guest
    \/ \E u \in Usernames : App_register_user(u)
    \/ \E id \in AllIds : App_toggle_done(id)
    \/ \E id \in AllIds : Zen_toggle_done(id)

SpecRecur == InitRecur /\ [][NextRecur]_vars

---------------------------------------------------------------------------
(* The store specification: the Storage classes with their Mongo mirror.   *)
(* upgraded_task.py: the methods of Storage called one at a time on a      *)
(* database and a collection left by earlier runs.  task.py: the window    *)
(* constructed over tasks.json or the collection, then its handlers.       *)

\* a sync without the try: the error of the mongod reaches the caller
Sync_Unguarded(mir, task, fresh) ==
    IF ~mongo.collection THEN [mirror |-> mir, raised |-> FALSE]
    ELSE IF mongo.strict \/ ~mongo.up THEN [mirror |-> mir, raised |-> TRUE]
    ELSE [mirror |-> replace_one(mir, [task EXCEPT !.id = IF @ # 0 THEN @ ELSE fresh]),
          raised |-> FALSE]

\* the outcome of _sync_task_to_mongo(task); fresh is the uuid4() given to a
\* document whose task carries no id.  With a collection at hand,
\* `if not self.mongo_collection` is a truth test of a pymongo Collection,
\* which raises NotImplementedError in pymongo 4 (mongo.strict) and is True
\* in older releases; an error of the mongod inside the try is swallowed.
Sync(mir, task, fresh) ==
    IF ~mongo.collection THEN [mirror |-> mir, raised |-> FALSE]
    ELSE IF mongo.strict THEN [mirror |-> mir, raised |-> TRUE]
    ELSE IF ~mongo.up THEN [mirror |-> mir, raised |-> FALSE]
    ELSE [mirror |-> replace_one(mir, [task EXCEPT !.id = IF @ # 0 THEN @ ELSE fresh]),
          raised |-> FALSE]

\* Storage.add_task(task)
Store_add_task(task) ==
    LET id   == IF task.id # 0 THEN task.id ELSE nextId
        sync == Sync(mirror, task, nextId + 1)
    IN  /\ prog = "app" /\ Foreground
        /\ tasks' = Storage_add_task(tasks, task, nextId)
        /\ mirror' = sync.mirror
        /\ nextId' = IF task.id # 0 THEN nextId ELSE nextId + 2
        /\ last' = Op("add_task", task.id, Storage_get_task(tasks, id), id, sync.raised, FALSE)
        /\ frame_notifier
        /\ UNCHANGED <<prog, stop_thread, uipc, now, file, current_user, users, mongo, backup, evDue, evArm>>

\* Storage.update_task(id_, **fields)
Store_update_task(id, fields) ==
    LET tbl  == Storage_update_task(tasks, id, fields)
        doc  == Storage_get_task(tbl, id)
        sync == IF doc # NoRow THEN Sync(mirror, doc, nextId)
                ELSE [mirror |-> mirror, raised |-> FALSE]
    IN  /\ prog = "app" /\ Foreground
        /\ tasks' = tbl
        /\ mirror' = sync.mirror
        /\ last' = Op("update_task", id, Storage_get_task(tasks, id), 0, sync.raised, FALSE)
        /\ frame_notifier
        /\ UNCHANGED <<prog, stop_thread, uipc, now, file, nextId, current_user, users, mongo, backup,
                       evDue, evArm>>

\* collection.delete_one({"id": id_})
delete_one(mir, id) ==
    IF IndexOf(mir, id) = 0 THEN mir
    ELSE SubSeq(mir, 1, IndexOf(mir, id) - 1) \o SubSeq(mir, IndexOf(mir, id) + 1, Len(mir))

\* Storage.delete_task(id_): the truth test of the collection is outside the try
Store_delete_task(id) ==
    /\ prog = "app" /\ Foreground
    /\ tasks' = Storage_delete_task(tasks, id)
    /\ mirror' = IF mongo.collection /\ ~mongo.strict /\ mongo.up
                 THEN delete_one(mirror, id) ELSE mirror
    /\ last' = Op("delete_task", id, Storage_get_task(tasks, id), 0,
                  mongo.collection /\ mongo.strict, FALSE)
    /\ frame_notifier
    /\ UNCHANGED <<prog, stop_thread, uipc, now, file, nextId, current_user, users, mongo, backup,
                   evDue, evArm>>

\* Storage.export_json(): json.dump(self.list_tasks(), f, default=str)
Store_export_json ==
    /\ prog = "app" /\ Foreground
    /\ backup' = [exists |-> TRUE, rows |-> Storage_list_tasks(tasks, "")]
    /\ last' = Op("export", 0, NoRow, 0, FALSE, FALSE)
    /\ frame_notifier
    /\ UNCHANGED <<prog, stop_thread, uipc, now, tasks, file, nextId, current_user, users, mirror, mongo,
                   evDue, evArm>>

\* an add_task that gives every task a new id
Import_AlwaysFresh(tbl, mir, rows, fresh) ==
    [tasks  |-> tbl \o [i \in 1 .. Len(rows) |-> [rows[i] EXCEPT !.id = fresh + i]],
     mirror |-> mir, raised |-> FALSE]

\* for t in tasks: self.add_task(t)   (the loop ends at the first add_task that raises)
RECURSIVE Import(_, _, _, _)
Import(tbl, mir, rows, fresh) ==
    IF rows = <<>> THEN [tasks |-> tbl, mirror |-> mir, raised |-> FALSE]
    ELSE LET sync == Sync(mir, Head(rows), fresh)
         IN  IF sync.raised
             THEN [tasks  |-> Storage_add_task(tbl, Head(rows), fresh),
                   mirror |-> sync.mirror, raised |-> TRUE]
             ELSE Import(Storage_add_task(tbl, Head(rows), fresh), sync.mirror,
                         Tail(rows), fresh)

\* the name under which an import is recorded: "import_again" when the step
\* before it was an import too
ImportOp == IF last.op \in {"import", "import_again"} THEN "import_again" ELSE "import"

\* Storage.import_json(path): open() raises when the file does not exist
Store_import_json ==
    LET out == Import(tasks, mirror, backup.rows, nextId)
    IN  /\ prog = "app" /\ Foreground
        /\ IF backup.exists
           THEN /\ tasks' = out.tasks
                /\ mirror' = out.mirror
                /\ last' = Op(ImportOp, 0, NoRow, 0, out.raised, FALSE)
           ELSE /\ UNCHANGED <<tasks, mirror>>
                /\ last' = Op(ImportOp, 0, NoRow, 0, TRUE, FALSE)
        /\ frame_notifier
        /\ UNCHANGED <<prog, stop_thread, uipc, now, file, nextId, current_user, users, mongo, backup,
                       evDue, evArm>>

\* the mongod stops answering, or answers again
Mongo_flip ==
    /\ mongo.collection /\ npc # "off"
    /\ mongo' = [mongo EXCEPT !.up = ~@]
    /\ last' = Op("flip", 0, NoRow, 0, FALSE, FALSE)
    /\ frame_notifier
    /\ UNCHANGED <<prog, stop_thread, uipc, now, tasks, file, nextId, ops, current_user, users, mirror,
                   backup, evDue, evArm>>

\* ToDoZen.__init__ of task.py: self.tasks = self.storage.load(); render_tasks();
\* _start_notifier()
Zen_init ==
    /\ prog = "zen" /\ npc = "off"
    /\ tasks' = SortByDue(IF mongo.collection THEN Zen_load(mirror) ELSE file)
    /\ npc' = "sleep"
    /\ last' = Op("load", 0, NoRow, 0, FALSE, FALSE)
    /\ UNCHANGED <<prog, stop_thread, uipc, now, file, nextId, ops, current_user, users, nNow, nTasks, nIdx,
                   pass, mirror, mongo, backup, evDue, evArm>>

\* the tasks A, B and C of earlier runs, as add_task / _add_task_from_ui built them
StoreTask(id) ==
    IF prog = "app"
    THEN App_new_task(id, Guest, "Pay rent", "Work", <<2024, 1, 31, 9, 0, 0>>, "daily", 0, {})
    ELSE Zen_new_task(id, "Pay rent", "Work", <<2024, 1, 31, 9, 0, 0>>, "daily")

\* the local tasks at start: none, A, or A and B
RECURSIVE StoredLocally(_)
StoredLocally(n) ==
    IF n = 0 THEN <<>>
    ELSE IF prog = "app" THEN Storage_add_task(StoredLocally(n - 1), StoreTask(n), n)
    ELSE Append(StoredLocally(n - 1), StoreTask(n))

\* the documents of the collection at start: none, A and B, or A, B and C
Mirrored(n) == [i \in 1 .. n |-> StoreTask(i)]

\* the ids a caller passes to Storage: those of A and B
StoreIds == {1, 2}

InitStore ==
    /\ prog \in {"app", "zen"}
    /\ now = Now0
    /\ nextId = 4 /\ ops = 0
    /\ current_user = "" /\ users = NoUsers
    /\ mongo \in {NoMongo} \cup
                 {[collection |-> TRUE, up |-> TRUE, strict |-> st] :
                     st \in (IF prog = "app" THEN BOOLEAN ELSE {FALSE})}
    /\ mirror \in {Mirrored(n) : n \in {0, 2, 3}}
    /\ backup = NoBackup
    /\ stop_thread = FALSE /\ uipc = "idle" /\ pass = NoPass
    /\ \E n \in 0 .. 2 :
          IF prog = "app"
          THEN tasks = StoredLocally(n) /\ file = <<>> /\ npc = "sleep"
          ELSE tasks = <<>> /\ file = StoredLocally(n) /\ npc = "off"
    /\ nNow = 0 /\ nTasks = <<>> /\ nIdx = 0
    /\ evDue = [i \in AllIds |-> 0]
    /\ evArm = [i \in AllIds |-> 0]
    /\ last = [op |-> "init", id |-> 0, pre |-> NoRow, n |-> 0, created |-> 0,
               raised |-> FALSE, event |-> FALSE]

NextStore ==
    \/ \E id \in {0} \cup StoreIds : Store_add_task(StoreTask(id))
    \/ \E id \in StoreIds : Store_update_task(id, [done |-> 1])
    \/ \E id \in StoreIds : Store_delete_task(id)
    \/ Store_export_json
    \/ Store_import_json
    \/ Mongo_flip
    \/ Zen_init
    \/ \E ti \in Titles, c \in Categories, d \in AddDues : Zen_add_task(ti, c, d, "none")
    \/ \E id \in Ids(tasks) : Zen_delete_task(id)

SpecStore == InitStore /\ [][NextStore]_vars

---------------------------------------------------------------------------
(* The pass specification: the notifier thread over a store of two tasks   *)
(* left by earlier operations, with no foreground operation but the close  *)
(* of the window.  A write of the notified flag may fail.                  *)

\* the write of the notified flag fails (sqlite3 raises in update_task, as it
\* does for every call once on_close has closed the connection; Storage.save
\* of task.py raises).  upgraded_task.py: the exception leaves the for loop
\* for the except of the while loop, which prints it and sleeps 5 s: the pass
\* is over.  task.py: the flag is set on the dict, _persist() prints the
\* exception of save and the loop goes on.
Notifier_mark_raises ==
    /\ npc = "mark"
    /\ LET t == nTasks[nIdx]
       IN  IF prog = "app"
           THEN /\ npc' = "sleep"
                /\ nNow' = 0 /\ nTasks' = <<>> /\ nIdx' = 0
                /\ pass' = NoPass
                /\ last' = Op("mark", t.id, t, 0, TRUE, FALSE)
                /\ UNCHANGED tasks
           ELSE /\ tasks' = Zen_mark(tasks, t.id)
                /\ nTasks' = Zen_mark(nTasks, t.id)
                /\ npc' = "scan"
                /\ nIdx' = NextCandidate(nIdx, nTasks)
                /\ pass' = [pass EXCEPT !.failed = @ \cup {t.id}]
                /\ last' = Op("mark", t.id, t, 0, FALSE, FALSE)
                /\ UNCHANGED nNow
    /\ frame_env
    /\ UNCHANGED <<file, nextId, ops, current_user, users, evDue, evArm>>

\* ToDoZenApp.on_close: the stop event is set, the connection is closed and
\* the window destroyed; the notifier thread is not waited for
App_on_close ==
    /\ prog = "app" /\ npc # "off" /\ ~stop_thread /\ uipc = "idle"
    /\ stop_thread' = TRUE
    /\ last' = Op("close", 0, NoRow, 0, FALSE, FALSE)
    /\ frame_notifier
    /\ UNCHANGED <<prog, now, tasks, file, nextId, ops, current_user, users, uipc,
                   mirror, mongo, backup, evDue, evArm>>

\* ToDoZen.on_close: the stop event is set, join(timeout=1.0) returns after a
\* second whether or not the pass is over, then _persist() and destroy()
Zen_on_close ==
    /\ prog = "zen" /\ npc # "off" /\ ~stop_thread /\ uipc = "idle"
    /\ stop_thread' = TRUE
    /\ file' = Zen_saved_file(tasks)
    /\ mirror' = Zen_saved_mirror(tasks)
    /\ last' = Op("close", 0, NoRow, 0, FALSE, FALSE)
    /\ frame_notifier
    /\ UNCHANGED <<prog, now, tasks, nextId, ops, current_user, users, uipc,
                   mongo, backup, evDue, evArm>>

\* due of a stored task: absent, two minutes ago, now, in half a minute
PassDues ==
    {<<>>, <<2024, 1, 31, 8, 58, 0>>, <<2024, 1, 31, 9, 0, 0>>, <<2024, 1, 31, 9, 0, 30>>}

\* the store with one more task, as the program's own operations leave it
PassStored(tbl, id, owner, due, done, notified) ==
    IF prog = "app"
    THEN Storage_update_task(
             Storage_add_task(tbl, App_new_task(id, owner, "Pay rent", "Work", due, "none", 0, {}), id),
             id, [done |-> done, notified |-> notified])
    ELSE SortByDue(Append(tbl, [Zen_new_task(id, "Pay rent", "Work", due, "none")
                                   EXCEPT !.done = done, !.notified = notified]))

InitPass ==
    /\ prog \in {"app", "zen"}
    /\ now = Now0
    /\ nextId = 3 /\ ops = 0
    /\ current_user \in (IF prog = "app" THEN {"", Guest} \cup Usernames ELSE {""})
    /\ users = IF current_user \in Usernames
               THEN Storage_add_user(NoUsers, current_user) ELSE NoUsers
    /\ \E o1, o2 \in (IF prog = "app" THEN {Guest} \cup Usernames ELSE {""}),
          d1, d2 \in PassDues, dn1, dn2 \in {0, 1}, nf1, nf2 \in {0, 1} :
          tasks = PassStored(PassStored(<<>>, 1, o1, d1, dn1, nf1), 2, o2, d2, dn2, nf2)
    /\ file = IF prog = "zen" THEN tasks ELSE <<>>
    /\ npc = "sleep" /\ nNow = 0 /\ nTasks = <<>> /\ nIdx = 0
    /\ mirror = <<>> /\ mongo = NoMongo /\ backup = NoBackup
    /\ stop_thread = FALSE /\ uipc = "idle" /\ pass = NoPass
    /\ evDue = [i \in AllIds |-> IF i \in Ids(tasks) THEN Storage_get_task(tasks, i).notified ELSE 0]
    /\ evArm = evDue
    /\ last = [op |-> "init", id |-> 0, pre |-> NoRow, n |-> 0, created |-> 0,
               raised |-> FALSE, event |-> FALSE]

NextPass ==
    \/ Notifier_start_pass
    \/ Notifier_examine
    \/ Notifier_mark
    \/ Notifier_mark_raises
    \/ Notifier_end_pass
    \/ Tick
    \/ App_on_close
    \/ Zen_on_close

SpecPass == InitPass /\ [][NextPass]_vars

---------------------------------------------------------------------------
(* The shutdown specification: the notifier thread and the close of the    *)
(* window, the thread being scheduled until it returns.  The clock of the  *)
(* model stands still: a shutdown takes seconds.                           *)

\* the while loop finds the stop event set after its sleep and
\* _notifier_loop returns
Notifier_exit ==
    /\ npc = "sleep" /\ ~LoopContinues
    /\ npc' = "exited"
    /\ last' = Op("exit", 0, NoRow, 0, FALSE, FALSE)
    /\ frame_env
    /\ UNCHANGED <<tasks, file, nextId, ops, current_user, users, nNow, nTasks, nIdx, pass,
                   evDue, evArm>>

NextStop ==
    \/ Notifier_start_pass
    \/ Notifier_examine
    \/ Notifier_mark
    \/ Notifier_mark_raises
    \/ Notifier_end_pass
    \/ Notifier_exit
    \/ App_on_close
    \/ Zen_on_close

\* the thread is scheduled: each statement it has reached is executed, the
\* write of the flag succeeding or raising
SpecStop ==
    /\ InitPass /\ [][NextStop]_vars
    /\ WF_vars(Notifier_start_pass) /\ WF_vars(Notifier_examine)
    /\ WF_vars(Notifier_mark \/ Notifier_mark_raises)
    /\ WF_vars(Notifier_end_pass) /\ WF_vars(Notifier_exit)

---------------------------------------------------------------------------
(* The timed pass specification: the notifier thread running without       *)
(* interruption.  The loop sleeps NOTIFY_CHECK_INTERVAL (15 s, 8 s in      *)
(* task.py) after a pass and 5 s (2 s) after an exception, all shorter     *)
(* than the minute of the grace window: the clock reaches the next minute  *)
(* only after a pass that read the current minute has run to its end.      *)

\* time.sleep(NOTIFY_CHECK_INTERVAL) at the end of a pass, seen at the grain
\* of the model's clock: the next pass reads a clock at most a minute later
Notifier_sleep ==
    /\ npc = "sleep" /\ last.op = "end_pass"
    /\ now < AddMinutes(Now0, MaxTicks)
    /\ now' = AddMinutes(now, 1)
    /\ last' = Op("tick", 0, NoRow, 0, FALSE, FALSE)
    /\ UNCHANGED <<prog, tasks, file, nextId, ops, current_user, users, stop_thread, uipc,
                   npc, nNow, nTasks, nIdx, pass, mirror, mongo, backup, evDue, evArm>>

NextLive ==
    \/ Notifier_start_pass
    \/ Notifier_examine
    \/ Notifier_mark
    \/ Notifier_mark_raises
    \/ Notifier_end_pass
    \/ Notifier_sleep

\* the thread is scheduled; a write that failed succeeds when it is retried
\* often enough
SpecLive ==
    /\ InitPass /\ [][NextLive]_vars
    /\ WF_vars(Notifier_start_pass) /\ WF_vars(Notifier_examine)
    /\ SF_vars(Notifier_mark) /\ WF_vars(Notifier_end_pass)
    /\ WF_vars(Notifier_sleep)

---------------------------------------------------------------------------
(* The connection specification: upgraded_task.py at the granularity of    *)
(* the sqlite3 and pymongo calls its Storage methods make.  The window's   *)
(* thread and the notifier thread share self.conn (check_same_thread=False)*)
(* and Storage holds no lock.  tasks is what the connection shows, the     *)
(* statements not yet committed included.                                  *)

\* update_task in the window's thread: cur.execute("UPDATE tasks SET ...")
Conn_ui_execute(id, fields) ==
    /\ prog = "app" /\ Foreground
    /\ tasks' = Storage_update_task(tasks, id, fields)
    /\ uipc' = "execute"
    /\ last' = Op("ui_execute", id, Storage_get_task(tasks, id), 0, FALSE, FALSE)
    /\ frame_notifier
    /\ UNCHANGED <<prog, now, file, nextId, current_user, users, stop_thread,
                   mirror, mongo, backup, evDue, evArm>>

\* ... self.conn.commit(); doc = self.get_task(id_); if doc: the sync is
\* called, which returns at once without a collection and raises on the
\* truth test of one under pymongo 4
Conn_ui_commit ==
    /\ uipc = "execute"
    /\ uipc' = IF Storage_get_task(tasks, last.id) # NoRow /\ mongo.collection /\ ~mongo.strict
               THEN "push" ELSE "idle"
    /\ last' = Op("ui_commit", last.id, last.pre, 0,
                  Storage_get_task(tasks, last.id) # NoRow /\ mongo.collection /\ mongo.strict,
                  FALSE)
    /\ frame_notifier
    /\ UNCHANGED <<prog, now, tasks, file, nextId, ops, current_user, users, stop_thread,
                   mirror, mongo, backup, evDue, evArm>>

\* ... replace_one(..., upsert=True) answered or gave up; update_task returns
Conn_ui_push ==
    /\ uipc = "push"
    /\ mirror' = Sync(mirror, Storage_get_task(tasks, last.id), nextId).mirror
    /\ uipc' = "idle"
    /\ last' = Op("ui_push", last.id, last.pre, 0, FALSE, FALSE)
    /\ frame_notifier
    /\ UNCHANGED <<prog, now, tasks, file, nextId, ops, current_user, users, stop_thread,
                   mongo, backup, evDue, evArm>>

\* list_tasks in the notifier thread: now = datetime.now(); cur.execute("SELECT ...")
Conn_list_execute ==
    /\ prog = "app" /\ npc = "sleep" /\ ~stop_thread
    /\ nNow' = now
    /\ npc' = "listing"
    /\ last' = Op("list_execute", 0, NoRow, 0, FALSE, FALSE)
    /\ frame_env
    /\ UNCHANGED <<tasks, file, nextId, ops, current_user, users, nTasks, nIdx, pass,
                   evDue, evArm>>

\* ... rows = cur.fetchall(); return [dict(r) for r in rows]
Conn_list_fetch ==
    /\ npc = "listing"
    /\ nTasks' = Storage_list_tasks(tasks, current_user)
    /\ nIdx' = 1
    /\ npc' = "scan"
    /\ pass' = [due |-> DueIds(nTasks', nNow), failed |-> {}]
    /\ last' = Op("list_fetch", 0, NoRow, 0, FALSE, FALSE)
    /\ frame_env
    /\ UNCHANGED <<tasks, file, nextId, ops, current_user, users, nNow, evDue, evArm>>

\* update_task(id, notified=1) in the notifier thread: cur.execute("UPDATE ...")
Conn_mark_execute ==
    /\ prog = "app" /\ npc = "mark" /\ ~stop_thread
    /\ tasks' = Storage_update_task(tasks, nTasks[nIdx].id, [notified |-> 1])
    /\ npc' = "updating"
    /\ last' = Op("mark_execute", nTasks[nIdx].id, nTasks[nIdx], 0, FALSE, FALSE)
    /\ frame_env
    /\ UNCHANGED <<file, nextId, ops, current_user, users, nNow, nTasks, nIdx, pass,
                   evDue, evArm>>

\* ... self.conn.commit(); update_task returns to the loop
Conn_mark_commit ==
    /\ npc = "updating"
    /\ npc' = "scan"
    /\ nIdx' = NextCandidate(nIdx, nTasks)
    /\ last' = Op("mark_commit", nTasks[nIdx].id, nTasks[nIdx], 0, FALSE, FALSE)
    /\ frame_env
    /\ UNCHANGED <<tasks, file, nextId, ops, current_user, users, nNow, nTasks, pass,
                   evDue, evArm>>

\* the fields a snooze of five minutes writes
ConnFields == [due |-> <<2024, 1, 31, 9, 5, 0>>, notified |-> 0]

InitConn ==
    /\ prog = "app"
    /\ now = Now0
    /\ nextId = 3 /\ ops = 0
    /\ current_user \in {"", Guest}
    /\ users = NoUsers
    /\ \E d1, d2 \in AddDues, nf1, nf2 \in {0, 1} :
          tasks = PassStored(PassStored(<<>>, 1, Guest, d1, 0, nf1), 2, Guest, d2, 0, nf2)
    /\ file = <<>>
    /\ npc = "sleep" /\ nNow = 0 /\ nTasks = <<>> /\ nIdx = 0
    /\ mongo \in {NoMongo} \cup
                 {[collection |-> TRUE, up |-> u, strict |-> st] : u, st \in BOOLEAN}
    /\ mirror = <<>> /\ backup = NoBackup
    /\ stop_thread = FALSE /\ uipc = "idle" /\ pass = NoPass
    /\ evDue = [i \in AllIds |-> IF i \in Ids(tasks) THEN Storage_get_task(tasks, i).notified ELSE 0]
    /\ evArm = evDue
    /\ last = [op |-> "init", id |-> 0, pre |-> NoRow, n |-> 0, created |-> 0,
               raised |-> FALSE, event |-> FALSE]

NextConn ==
    \/ \E id \in StoreIds : Conn_ui_execute(id, ConnFields)
    \/ Conn_ui_commit
    \/ Conn_ui_push
    \/ Conn_list_execute
    \/ Conn_list_fetch
    \/ Notifier_examine
    \/ Conn_mark_execute
    \/ Conn_mark_commit
    \/ Notifier_end_pass

SpecConn == InitConn /\ [][NextConn]_vars

---------------------------------------------------------------------------
(* Vocabulary of the properties *)

\* the row of id as the store holds it now
RowOf(id) == Storage_get_task(tasks, id)

\* the last step examined a stored task in a notifier pass
Examined == last.op = "examine" /\ last.pre # NoRow

\* the last step was a toggle of an existing task to done / back to not-done
Completed == last.op = "toggle" /\ last.pre # NoRow /\ ~Truthy(last.pre.done)

Uncompleted == last.op = "toggle" /\ last.pre # NoRow /\ Truthy(last.pre.done)

\* the last step inserted a row, and the store holds it
RolledOver ==
    /\ last.created # 0
    /\ Len(tasks) = last.n + 1
    /\ RowOf(last.created) # NoRow

\* the due of the task the last step handled, as a time
PreDue == parse_iso(last.pre.due)

---------------------------------------------------------------------------
(* Notification properties, checked under Spec *)

C3_UndoneResetsNotified ==
    (Uncompleted /\ Truthy(last.pre.notified) /\ RowOf(last.id) # NoRow)
        => ~Truthy(RowOf(last.id).notified)

\* C4: on completion of an edit of the due or of a snooze the task's stored
\* notified flag is false, and the row a rollover creates has notified false,
\* whatever the flag was before.
C4_DueChangeResetsNotified ==
    /\ (last.op \in {"edit", "snooze"} /\ last.pre # NoRow /\ PreDue # NoneDT)
          => (RowOf(last.id) # NoRow /\ ~Truthy(RowOf(last.id).notified))
    /\ (Completed /\ last.created # 0)
          => (RolledOver /\ ~Truthy(RowOf(last.created).notified))

\* a notified task was snoozed: its due moved and its flag is false again
C4_SnoozedAfterNotified ==
    /\ last.op = "snooze" /\ last.pre # NoRow
    /\ Truthy(last.pre.notified)
    /\ RowOf(last.id).due # last.pre.due
    /\ ~Truthy(RowOf(last.id).notified)

---------------------------------------------------------------------------
(* Recurrence properties, checked under SpecRecur *)

\* the decoded recurrence_extra of the task the last step handled
PreExtra == json_loads(last.pre.recurrence_extra)

\* the completed task is a custom task whose recurrence_extra decodes to a record
CustomCompleted ==
    /\ Completed /\ prog = "app"
    /\ last.pre.recurrence = "custom"
    /\ PreDue # NoneDT
    /\ IsDict(PreExtra)

\* the due of the row the last step created, as a time
CreatedDue == parse_iso(RowOf(last.created).due)

\* days a daily, weekly or every-N task moves on
ClaimedPeriod ==
    IF last.pre.recurrence = "daily" THEN 1
    ELSE IF last.pre.recurrence = "weekly" THEN 7
    ELSE PreExtra.every_x_days

\* C5: completing a daily, weekly or custom every-N task (N >= 1) creates a
\* row whose due is the completed task's stored due plus 1, 7 or N days,
\* whether the completion comes before or after that due.
C5_FixedPeriodFromStoredDue ==
    (/\ Completed /\ PreDue # NoneDT
     /\ \/ last.pre.recurrence \in {"daily", "weekly"}
        \/ CustomCompleted /\ PreExtra.every_x_days >= 1)
        => (RolledOver /\ CreatedDue = PreDue + ClaimedPeriod * 24 * 3600)

\* an every-3-days task completed days after its due
C5_LateCompletion ==
    /\ CustomCompleted /\ PreExtra.every_x_days = 3
    /\ now > PreDue + 24 * 3600
    /\ RolledOver /\ CreatedDue = PreDue + 3 * 24 * 3600

\* the same day-of-month in the following calendar month, or its last day
SameDayNextMonth(text) ==
    LET y  == IF text[2] = 12 THEN text[1] + 1 ELSE text[1]
        mo == IF text[2] = 12 THEN 1 ELSE text[2] + 1
    IN  <<y, mo, Min(text[3], DaysInMonth(y, mo)), text[4], text[5], text[6]>>

\* C6: completing a monthly task creates a row due on the same day of the
\* following calendar month, or on that month's last day when it is shorter,
\* at the same time of day: Jan 31 gives Feb 28, or Feb 29 in a leap year.
C6_MonthlyCalendarAware ==
    (Completed /\ last.pre.recurrence = "monthly" /\ PreDue # NoneDT)
        => (/\ RolledOver
            /\ RowOf(last.created).due = SameDayNextMonth(last.pre.due)
            /\ last.pre.due = <<2025, 1, 31, 9, 0, 0>>
                  => RowOf(last.created).due = <<2025, 2, 28, 9, 0, 0>>
            /\ last.pre.due = <<2024, 1, 31, 9, 0, 0>>
                  => RowOf(last.created).due = <<2024, 2, 29, 9, 0, 0>>)

\* the least element of a non-empty set of weekdays
LeastOf(S) == CHOOSE d \in S : \A e \in S : d <= e

\* days to the next configured weekday, as the claim states it
ClaimedWeekdayDelta(S, wd) ==
    IF {d \in S : d > wd} # {}
    THEN LeastOf({d \in S : d > wd}) - wd
    ELSE 7 - wd + LeastOf(S)

\* the completed task is a custom weekday-set task with a non-empty set
WeekdaySetCompleted ==
    /\ CustomCompleted
    /\ PreExtra.every_x_days = 0
    /\ PreExtra.weekdays # {}

\* C7: completing a custom task with the non-empty weekday set S creates a
\* row due (min{d in S : d > wd} - wd) days after the stored due when S has a
\* weekday after wd = weekday(due), and (7 - wd + min S) days after otherwise:
\* with S = {Mon, Thu} a Wednesday gives the Thursday of that week and a
\* Thursday the Monday of the next.
C7_NextConfiguredWeekday ==
    WeekdaySetCompleted
        => (/\ RolledOver
            /\ CreatedDue = PreDue + 24 * 3600 *
                   ClaimedWeekdayDelta(PreExtra.weekdays, (PreDue \div (24 * 3600)) % 7)
            /\ (PreExtra.weekdays = {0, 3} /\ last.pre.due = <<2024, 1, 31, 9, 0, 0>>)
                  => RowOf(last.created).due = <<2024, 2, 1, 9, 0, 0>>
            /\ (PreExtra.weekdays = {0, 3} /\ last.pre.due = <<2024, 2, 1, 9, 0, 0>>)
                  => RowOf(last.created).due = <<2024, 2, 5, 9, 0, 0>>)

\* a Thursday task with the set {Mon, Thu} wrapped to the next Monday
C7_WrappedToMonday ==
    /\ WeekdaySetCompleted
    /\ PreExtra.weekdays = {0, 3} /\ last.pre.due = <<2024, 2, 1, 9, 0, 0>>
    /\ RolledOver /\ RowOf(last.created).due = <<2024, 2, 5, 9, 0, 0>>

\* T1 of the chained scenario: the custom task 1 with the weekday set
\* {Tue, Fri}, due on Tuesday 2024-01-30 at 09:00
IsT1 ==
    /\ prog = "app"
    /\ RowOf(1) # NoRow
    /\ RowOf(1).recurrence = "custom"
    /\ RowOf(1).due = <<2024, 1, 30, 9, 0, 0>>
    /\ IsDict(json_loads(RowOf(1).recurrence_extra))
    /\ json_loads(RowOf(1).recurrence_extra).every_x_days = 0
    /\ json_loads(RowOf(1).recurrence_extra).weekdays = {1, 4}

\* C8: completing T1 creates a row due on the Friday of that week at 09:00,
\* and completing that row, as the store returns it, creates a further row
\* due on the following Tuesday at 09:00.
C8_ChainedRollover ==
    /\ (IsT1 /\ Completed /\ last.id = 1)
          => (RolledOver /\ RowOf(last.created).due = <<2024, 2, 2, 9, 0, 0>>)
    /\ (IsT1 /\ Completed /\ last.id # 1
             /\ last.pre.recurrence = "custom"
             /\ last.pre.due = <<2024, 2, 2, 9, 0, 0>>)
          => (RolledOver /\ RowOf(last.created).due = <<2024, 2, 6, 9, 0, 0>>)

\* C9: completing a custom task whose recurrence_extra holds no interval and
\* an empty weekday set creates no row and raises nothing.
C9_EmptyWeekdaySetIsNone ==
    (CustomCompleted /\ PreExtra.every_x_days = 0 /\ PreExtra.weekdays = {})
        => (/\ ~last.raised
            /\ last.created = 0
            /\ Len(tasks) = last.n
            /\ Truthy(RowOf(last.id).done))

\* a custom task with nothing configured was completed and the store kept its size
C9_EmptySetCompleted ==
    /\ CustomCompleted
    /\ PreExtra.every_x_days = 0 /\ PreExtra.weekdays = {}
    /\ ~last.raised
    /\ Len(tasks) = last.n
    /\ Truthy(RowOf(last.id).done)

\* C10: completing a custom task whose stored recurrence_extra does not decode
\* to a record creates no row and does not raise.
C10_MalformedExtraIsNone ==
    (/\ Completed /\ prog = "app"
     /\ last.pre.recurrence = "custom"
     /\ PreDue # NoneDT
     /\ ~IsDict(PreExtra))
        => (~last.raised /\ last.created = 0 /\ Len(tasks) = last.n)

---------------------------------------------------------------------------
(* Rollover rows, checked under SpecRecur *)

\* the Recurrence Engine of the running program yields a next due for the task
YieldsNext(task) ==
    LET out == IF prog = "app" THEN App_next_due(task) ELSE Zen_next_due(task)
    IN  task.recurrence \notin {"none", ""} /\ ~out.raised /\ out.next # NoneDT

\* C11: toggling to done a recurring task for which a next due is computed
\* keeps every row of the store, the completed one with its id and done=true,
\* and adds exactly one row, whose id was not in the store and whose due is
\* later than the completed row's due.
C11_CompletionKeepsAndAddsOne ==
    [][(/\ last'.op = "toggle" /\ last'.pre # NoRow
        /\ ~Truthy(last'.pre.done)
        /\ YieldsNext(last'.pre))
          => (/\ Len(tasks') = Len(tasks) + 1
              /\ Ids(tasks) \subseteq Ids(tasks')
              /\ Cardinality(Ids(tasks') \ Ids(tasks)) = 1
              /\ Truthy(Storage_get_task(tasks', last'.id).done)
              /\ Storage_get_task(tasks', last'.id).due = last'.pre.due
              /\ \A id \in Ids(tasks') \ Ids(tasks) :
                    parse_iso(Storage_get_task(tasks', id).due) > parse_iso(last'.pre.due))]_vars

\* the row created by a rollover was itself completed and rolled over
C11_SecondRollover ==
    /\ Completed /\ last.id = 2
    /\ RolledOver /\ last.created = 3
    /\ Ids(tasks) = {1, 2, 3}
    /\ Truthy(RowOf(2).done)

\* C12: the row a rollover creates has done=false, notified=false, the owner,
\* title, category, recurrence and recurrence_extra value of the completed
\* task, and the computed next due.
C12_RolloverCopiesFields ==
    (Completed /\ last.created # 0 /\ RowOf(last.created) # NoRow)
        => (/\ ~Truthy(RowOf(last.created).done)
            /\ ~Truthy(RowOf(last.created).notified)
            /\ RowOf(last.created).user = last.pre.user
            /\ RowOf(last.created).title = last.pre.title
            /\ RowOf(last.created).category = last.pre.category
            /\ RowOf(last.created).recurrence = last.pre.recurrence
            /\ RowOf(last.created).recurrence_extra = last.pre.recurrence_extra
            /\ parse_iso(RowOf(last.created).due) > PreDue)

---------------------------------------------------------------------------
(* Profile rewards, checked under SpecRecur *)

\* the step is a toggle to done by a user who has a profile
RewardedStep ==
    /\ prog = "app"
    /\ last'.op = "toggle" /\ last'.pre # NoRow
    /\ ~Truthy(last'.pre.done)
    /\ current_user \in DOMAIN users

\* the streak the claim gives a profile for a completion on the day `today`
ClaimedStreak(profile, today) ==
    IF profile.last_completed = <<>> THEN 1
    ELSE LET lastDay == parse_iso(profile.last_completed) \div (24 * 3600)
         IN  IF lastDay = today - 1 THEN profile.streak + 1
             ELSE IF lastDay = today THEN profile.streak
             ELSE 1

\* C13: a toggle to done by a user with a profile makes streak streak + 1 when
\* the date of last_completed is the day before the completion date, leaves
\* it when that date is the completion date, and makes it 1 otherwise.
C13_StreakRule ==
    [][RewardedStep
          => users'[current_user].streak
                 = ClaimedStreak(users[current_user], now \div (24 * 3600))]_vars

\* a profile with a streak of 2 completed on the next day
C13_StreakExtended ==
    /\ Completed
    /\ current_user \in DOMAIN users
    /\ users[current_user].streak = 3

\* C14: no step lowers the coins of a profile, and a toggle to done by the
\* profile's user raises them.
C14_CoinsNeverDecrease ==
    [][/\ \A u \in DOMAIN users :
             u \in DOMAIN users' /\ users'[u].coins >= users[u].coins
       /\ RewardedStep => users'[current_user].coins > users[current_user].coins]_vars

\* C15: toggling a done task back to not-done leaves every profile as it was
\* and neither creates nor deletes a task row.
C15_UndoneHasNoReward ==
    [][(last'.op = "toggle" /\ last'.pre # NoRow /\ Truthy(last'.pre.done))
          => (/\ users' = users
              /\ Len(tasks') = Len(tasks)
              /\ Ids(tasks') = Ids(tasks)
              /\ ~Truthy(Storage_get_task(tasks', last'.id).done))]_vars

\* a user with coins toggled a done task back
C15_UndoneByRewardedUser ==
    /\ Uncompleted /\ prog = "app"
    /\ current_user \in DOMAIN users
    /\ users[current_user].coins > 0
    /\ ~Truthy(RowOf(last.id).done)

---------------------------------------------------------------------------
(* The mirror, checked under SpecStore *)

\* the ids of the documents of a collection or of the rows of a list
IdSet(tbl) == {i \in Ids(tbl) : i # 0}

\* the last step was a handler of task.py that ended in _persist() while the
\* collection answered
Reconciled ==
    /\ prog = "zen"
    /\ mongo.collection /\ mongo.up
    /\ last.op \in {"add", "delete"}

\* C16: after Storage.save on a collection that answers, the ids of the
\* collection are the ids of the local list: every local task is a document
\* and no document is left whose id is not local.
C16_ReconciledMirror ==
    Reconciled
        => (/\ IdSet(mirror) = IdSet(tasks)
            /\ \A i \in 1 .. Len(tasks) : \E j \in 1 .. Len(mirror) : mirror[j] = tasks[i]
            /\ Len(mirror) = Len(tasks))

\* three documents were loaded, one task was deleted, and the collection was
\* left with the two ids of the list
C16_RemoteOnlyDeleted ==
    /\ Reconciled /\ last.op = "delete"
    /\ Len(tasks) = 2 /\ Len(mirror) = 2
    /\ IdSet(mirror) = IdSet(tasks)

\* the last step was a mutation of Storage whose remote call was made and
\* failed: a collection is at hand, its truth test passed, the mongod is down
RemoteFailed ==
    /\ prog = "app"
    /\ mongo.collection /\ ~mongo.strict /\ ~mongo.up
    /\ last.op \in {"add_task", "update_task", "delete_task"}

\* the local write of the last mutation is in the table
LocallyCommitted ==
    LET row == Storage_get_task(tasks, IF last.op = "add_task" THEN last.created ELSE last.id)
    IN  CASE last.op = "add_task"    -> row # NoRow /\ row.title = StoreTask(last.id).title
          [] last.op = "update_task" -> (last.pre # NoRow) => (row # NoRow /\ row.done = 1)
          [] last.op = "delete_task" -> row = NoRow
          [] OTHER -> TRUE

\* C17: when the remote upsert or delete of add_task, update_task or
\* delete_task fails, the mutation returns without an exception and its local
\* write stays in the table.
C17_MirrorFailureSwallowed ==
    RemoteFailed => (~last.raised /\ LocallyCommitted)

\* a stored task was deleted while the mongod was down: the row is gone
\* locally, its document is still in the collection, nothing was raised
C17_DeletedWhileDown ==
    /\ RemoteFailed /\ last.op = "delete_task"
    /\ last.pre # NoRow
    /\ Storage_get_task(tasks, last.id) = NoRow
    /\ IndexOf(mirror, last.id) # 0

\* the ids a step can give to local tasks without reading the mirror: those
\* already local (the list, tasks.json, the exported file), the id it was
\* called with, and the uuid4() values it drew
LocalOrigins ==
    Ids(tasks) \cup Ids(file) \cup Ids(backup.rows)
        \cup {last'.id, last'.created} \cup (nextId .. nextId' - 1)

\* C18: no step takes a local task from the mirror: every task in the local
\* list after a step has an id that was local before it, was passed to the
\* step, or was drawn by it; a document held only by the collection never
\* becomes a local task.
C18_MirrorNeverFeedsLocal ==
    [][IdSet(tasks') \subseteq LocalOrigins]_vars

\* the step is an import_json of a file that exists
Imports == last'.op \in {"import", "import_again"} /\ ops' = ops + 1 /\ backup.exists

\* C19: importing an export never makes a duplicate row, and importing the
\* export of the store as it stands (once, and again) leaves the set of task
\* ids and the number of rows as they were.
C19_ImportIdempotent ==
    [][Imports =>
          /\ Cardinality(IdSet(tasks')) = Len(tasks')
          /\ IdSet(tasks') \subseteq IdSet(tasks) \cup IdSet(backup.rows)
          /\ (IdSet(backup.rows) = IdSet(tasks)) =>
                (IdSet(tasks') = IdSet(tasks) /\ Len(tasks') = Len(tasks))]_vars

\* the export of two rows was imported a second time, and the table holds the
\* two rows of the export
C19_ImportedTwice ==
    /\ last.op = "import_again" /\ ~last.raised
    /\ backup.exists /\ Len(backup.rows) = 2
    /\ last.n = 2 /\ Len(tasks) = 2
    /\ IdSet(tasks) = IdSet(backup.rows)

\* add_task was called with the task value of the add_task before it (the
\* tasks passed to Storage differ in their id only; an id of 0 is a task
\* without an id)
AddedAgain ==
    /\ last.op = "add_task" /\ last'.op = "add_task"
    /\ ops' = ops + 1
    /\ last'.id = last.id

\* C20: add_task(t) applied a second time leaves the table as the first
\* application left it, for every task value t: same rows, same field values.
C20_AddTaskIdempotent ==
    [][AddedAgain => tasks' = tasks]_vars

---------------------------------------------------------------------------
(* Concurrency of the store, checked under SpecConn *)

\* the notifier thread is inside list_tasks or update_task
NotifierInStore == npc \in {"listing", "updating"}

\* C21: the notifier thread and the window's thread are never inside a
\* Storage method on the shared connection at the same time, and list_tasks
\* never returns rows read while a statement of the window's thread is not
\* yet committed.
C21_StoreSerialized ==
    /\ ~(NotifierInStore /\ uipc # "idle")
    /\ last.op = "list_fetch" => uipc # "execute"

---------------------------------------------------------------------------
(* The notifier pass, checked under SpecPass *)

\* C22: once on_close has run (stop event set, store closed), the notifier
\* thread writes nothing to the store and attempts no write on it: on_close
\* has waited for the pass under way.
C22_NoWriteAfterClose ==
    stop_thread => last.op # "mark"

\* the for loop of the pass has gone through the whole list
PassOver == npc = "scan" /\ nIdx > Len(nTasks)

\* the pass emitted a due-event for id and the store holds id as notified
Fired(id) == evArm[id] >= 1 /\ RowOf(id) # NoRow /\ Truthy(RowOf(id).notified)

\* C23: when a pass has gone through its list, every task that was not done,
\* not notified and due inside the window when the pass began has had its
\* due-event and is stored with notified=true: the first such task and every
\* later one.
C23_PassHandlesEveryDue ==
    PassOver => \A id \in pass.due : Fired(id)

\* a pass that began with two tasks to notify has notified both
C23_BothFired ==
    /\ PassOver
    /\ Cardinality(pass.due) = 2 /\ pass.failed = {}
    /\ \A id \in pass.due : Fired(id) /\ evArm[id] = 1

\* the step ends a pass (the list is exhausted, or an exception left the loop)
PassEnds == npc # "sleep" /\ npc' = "sleep"

\* the ids whose iteration failed in the pass the step ends
FailedIds == pass.failed \cup (IF last'.op = "mark" /\ last'.raised THEN {last'.id} ELSE {})

\* id has had its due-event and is stored as notified when the step is over
FiredAfter(id) ==
    /\ evArm'[id] >= 1
    /\ Storage_get_task(tasks', id) # NoRow
    /\ Truthy(Storage_get_task(tasks', id).notified)

\* C24: when the processing of a task fails in a pass, every other task that
\* was to be notified in that pass has its due-event and notified=true by
\* the time the pass ends.
C24_FaultIsolated ==
    [][(PassEnds /\ FailedIds # {}) =>
          \A id \in pass.due \ FailedIds : FiredAfter(id)]_vars

\* C25: a task whose due is absent or cannot be parsed gets no due-event
\* from the pass that examines it, the scheduler never writes its notified
\* flag, and the loop goes on to the next task of the list.
C25_UnparsableDueSkipped ==
    /\ (Examined /\ ~WellFormed(last.pre.due))
          => (/\ ~last.event
              /\ RowOf(last.id) = last.pre
              /\ npc = "scan" /\ nIdx <= Len(nTasks) + 1
              /\ nIdx >= 2 /\ nTasks[nIdx - 1].id = last.id)
    /\ last.op = "mark" => WellFormed(last.pre.due)

\* a pass went over a task without a due, left it as it was, and notified
\* the task that came after it in the list
C25_SkippedThenFired ==
    /\ PassOver /\ Len(nTasks) = 2
    /\ ~WellFormed(nTasks[1].due)
    /\ ~Truthy(RowOf(nTasks[1].id).notified) /\ evArm[nTasks[1].id] = 0
    /\ nTasks[2].id \in pass.due /\ Fired(nTasks[2].id)

\* C26: a due-event is emitted only by a pass whose clock reading lies
\* between the task's due and one minute after it: never before the due time
\* of the stored task, never for a due older than the grace window.
C26_EventOnlyInWindow ==
    (Examined /\ last.event)
        => (/\ PreDue # NoneDT
            /\ PreDue <= nNow /\ nNow <= PreDue + 60 * GraceWindowMin
            /\ nNow <= now
            /\ RowOf(last.id).due = last.pre.due)

\* a pass that read the clock a full minute after the due emitted the event
C26_FiredAtEdgeOfGrace ==
    /\ Examined /\ last.event
    /\ nNow = PreDue + 60 * GraceWindowMin
    /\ evArm[last.id] = 1

\* the step is one of the notifier thread
NotifierStep == last'.op \in {"start_pass", "examine", "mark", "end_pass"} /\ last' # last

\* C28: a step of the notifier thread adds and removes no task and no
\* profile, and changes no field of any task but the notified flag of the
\* task it has just emitted the due-event for, which it sets.
C28_OnlyNotifiedWritten ==
    [][NotifierStep =>
          /\ Len(tasks') = Len(tasks)
          /\ users' = users
          /\ \A i \in 1 .. Len(tasks) :
                \/ tasks'[i] = tasks[i]
                \/ /\ last'.op = "mark" /\ tasks[i].id = last'.id
                   /\ evArm[last'.id] >= 1
                   /\ tasks'[i] = [tasks[i] EXCEPT !.notified = 1]]_vars

\* a pass marked a task, of two, that it had notified: the row differs from
\* the one it read by the flag alone
C28_MarkedOne ==
    /\ last.op = "mark" /\ ~last.raised
    /\ ~Truthy(last.pre.notified)
    /\ RowOf(last.id) = [last.pre EXCEPT !.notified = 1]
    /\ Len(tasks) = 2 /\ last.n = 2
    /\ \E i \in 1 .. 2 : tasks[i].id # last.id /\ evArm[tasks[i].id] = 0

\* C30: after a toggle to done the task's stored xp is the reward of
\* award_xp_for_task for that task, whether the current user is a
\* registered profile or the guest.
C30_XpStoredOnCompletion ==
    (Completed /\ prog = "app") => RowOf(last.id).xp = award_xp_for_task(last.pre)

\* C29: once the local write of a store mutation is committed the call has
\* returned to its caller: the caller's thread is not held inside the
\* mutation for the push of the record to the mirror.
C29_ReturnsAtCommit ==
    (last.op = "ui_commit" /\ ~last.raised) => uipc = "idle"

---------------------------------------------------------------------------
(* Timeliness, checked under SpecLive *)

\* the scheduler lists t: task.py lists every task, upgraded_task.py those of
\* the current user, or all of them before the login
Listed(t) == prog = "zen" \/ current_user = "" \/ t.user = current_user

\* t is a listed task, not done and not notified, that has had no due-event
\* and was in the store before its due time
Waiting(t) ==
    /\ Listed(t)
    /\ ~Truthy(t.done) /\ ~Truthy(t.notified)
    /\ WellFormed(t.due) /\ parse_iso(t.due) >= Now0
    /\ evArm[t.id] = 0

\* no task is still waiting after the minute of grace that follows its due
NoneMissed ==
    \A i \in 1 .. Len(tasks) :
        Waiting(tasks[i]) => now <= parse_iso(tasks[i].due) + 60 * GraceWindowMin

\* the task id is waiting and its due time has come
DueNow(id) ==
    /\ RowOf(id) # NoRow /\ Waiting(RowOf(id))
    /\ parse_iso(RowOf(id).due) <= now

---------------------------------------------------------------------------
(* Completion, checked under SpecRecur *)

\* the fields of a row that a completion may write
Unrewarded(row) == [row EXCEPT !.done = 0, !.xp = 0]

\* C31: toggling to done a task whose recurrence is none adds and removes no
\* row; every other row is unchanged, and the task itself differs from what
\* it was only in done, which is true, and xp.
C31_NoneStaysCompleted ==
    [][(/\ last'.op = "toggle" /\ last'.pre # NoRow
        /\ ~Truthy(last'.pre.done)
        /\ last'.pre.recurrence = "none")
          => (/\ Len(tasks') = Len(tasks)
              /\ Ids(tasks') = Ids(tasks)
              /\ \A id \in Ids(tasks) :
                    IF id = last'.id
                    THEN /\ Truthy(Storage_get_task(tasks', id).done)
                         /\ Unrewarded(Storage_get_task(tasks', id))
                               = Unrewarded(Storage_get_task(tasks, id))
                    ELSE Storage_get_task(tasks', id) = Storage_get_task(tasks, id))]_vars

\* a notified task that does not repeat was completed by a registered user,
\* who got the reward, and it is the only row
C31_NoneCompleted ==
    /\ Completed /\ last.pre.recurrence = "none"
    /\ Truthy(last.pre.notified)
    /\ prog = "app" /\ current_user \in DOMAIN users
    /\ Len(tasks) = 1 /\ Truthy(RowOf(last.id).done)
    /\ RowOf(last.id).xp = award_xp_for_task(last.pre)
    /\ users[current_user].last_completed # <<>>

\* C32: a row stored by _add_task_from_ui (its recurrence_extra is one
\* json.dumps of a dict) has an empty recurrence_extra unless its recurrence
\* is custom, and never holds both an every_x_days interval and a weekday set.
C32_OneSubMode ==
    \A i \in 1 .. Len(tasks) :
        (prog = "app" /\ tasks[i].recurrence_extra.lvl = 1)
            => LET extra == json_loads(tasks[i].recurrence_extra)
               IN  /\ tasks[i].recurrence # "custom" => extra = EmptyDict
                   /\ ~(extra.every_x_days # 0 /\ extra.weekdays # {})

---------------------------------------------------------------------------
(* Shutdown, checked under SpecStop *)

\* C33: once the stop event is set the notifier loop starts no pass, a
\* sleeping loop does nothing but return, and the loop does return: it
\* finishes at most the pass it is in.
C33_CooperativeStop ==
    /\ [][stop_thread => (/\ last'.op # "start_pass"
                          /\ npc = "sleep" => npc' \in {"sleep", "exited"})]_vars
    /\ stop_thread ~> (npc = "exited")

\* the window was closed while a pass had a task to mark, and the thread
\* has returned
C33_StoppedInPass ==
    /\ stop_thread /\ npc = "exited"
    /\ \E id \in Ids(tasks) : evArm[id] >= 1 /\ ~Truthy(RowOf(id).notified)

---------------------------------------------------------------------------
(* The pass against the window's handlers, checked under Spec *)

\* C34: when a pass has written notified=true on a task, the due the store
\* holds for the task is the due the pass emitted the due-event for, however
\* the steps of the pass and the snooze and edit handlers interleave.
C34_MarksOnlyWhatFired ==
    (last.op = "mark" /\ ~last.raised /\ RowOf(last.id) # NoRow)
        => RowOf(last.id).due = last.pre.due

\* C35: whatever the sequence of toggles, the store never holds two rows of
\* one owner, title and recurrence with the same due: a completion that is
\* undone and redone adds no second row for the same next occurrence.
C35_OneSuccessor ==
    \A i, j \in 1 .. Len(tasks) :
        (/\ i # j
         /\ tasks[i].user = tasks[j].user
         /\ tasks[i].title = tasks[j].title
         /\ tasks[i].recurrence = tasks[j].recurrence)
            => tasks[i].due # tasks[j].due

---------------------------------------------------------------------------
(* Round trips, checked under SpecStore *)

\* C36: after import_json has re-applied the rows of an export with add_task,
\* every such row's recurrence_extra in the store decodes to the same record
\* as the recurrence_extra of the row that was exported.
C36_RoundTripKeepsExtra ==
    (last.op \in {"import", "import_again"} /\ ~last.raised /\ backup.exists)
        => \A i \in 1 .. Len(backup.rows) :
              json_loads(RowOf(backup.rows[i].id).recurrence_extra)
                  = json_loads(backup.rows[i].recurrence_extra)

\* the step is a Storage mutation made while the collection answers every call
MirroredMutation ==
    /\ last'.op \in {"add_task", "update_task", "delete_task"}
    /\ ops' = ops + 1
    /\ mongo.collection /\ mongo.up /\ ~mongo.strict

\* C37: a mutation of the store made while the mirror answers, starting with
\* the same task ids in the table and in the collection, ends with the same
\* task ids in both, also when add_task is given a task without an id.
C37_SameIdsAfterMutation ==
    [][(MirroredMutation /\ IdSet(mirror) = IdSet(tasks))
          => IdSet(mirror') = IdSet(tasks')]_vars

---------------------------------------------------------------------------
(* Failure of a completion, checked under SpecRecur *)

\* C38: a toggle-to-done that raises leaves the tasks and the profiles as
\* they were before it.
C38_CompletionAllOrNothing ==
    [][(/\ last'.op = "toggle" /\ last'.raised
        /\ last'.pre # NoRow /\ ~Truthy(last'.pre.done))
          => (tasks' = tasks /\ users' = users)]_vars

---------------------------------------------------------------------------
(* Advance of a rollover, checked under SpecRecur *)

\* C39: the row a rollover creates is due strictly later than the completed
\* task; when the completed task holds a weekday set, the new due is one to
\* seven whole days later and falls on a weekday of the set.
C39_RolloverAdvances ==
    (Completed /\ RolledOver)
        => (/\ CreatedDue > PreDue
            /\ (/\ prog = "app" /\ last.pre.recurrence = "custom"
                /\ IsDict(PreExtra) /\ PreExtra.weekdays # {})
                  => (/\ CreatedDue - PreDue \in {k * SecondsPerDay : k \in 1 .. 7}
                      /\ weekday(CreatedDue) \in PreExtra.weekdays))

---------------------------------------------------------------------------
(* The day of a completion, checked under SpecRecur *)

\* C40: the calendar date of the last_completed that a completion records is
\* the date that its streak rule took as today.
C40_RecordedDayIsToday ==
    [][RewardedStep
          => DateOf(parse_iso(users'[current_user].last_completed)) = DateOf(now)]_vars

=============================================================================
